---- MODULE Spec2Model ----
(***************************************************************************)
(* maybe-mcp: the categorization engine (rule list, categorize) and the    *)
(* tool handlers that drive it.                                            *)
(*                                                                         *)
(* Representation.                                                         *)
(*  - A JavaScript number that is a priority is a rational num/den, so     *)
(*    that 85 and 85.5 are both values of the model.                       *)
(*  - A money amount is a whole number of cents.                           *)
(*  - A text is a string; Found[s] is the set of regular-expression        *)
(*    sources and keywords that occur in the lower-cased text s.  All      *)
(*    patterns of the program carry the flag i and no other flag.          *)
(*  - An optional value is a set with at most one element.                 *)
(*  - A date is a day number, day 0 being Monday 2024-01-01 (UTC).         *)
(***************************************************************************)
EXTENDS Integers, Sequences, FiniteSets, TLC

VARIABLES
  rules,     \* CategorizationEngine.rules of the engine under study
  nextSeq,   \* history: registration number the next added rule gets
  call,      \* the last call on the engine and what it returned
  running,   \* the request handler that holds the thread, or "none"
  manage,    \* the rule-management request being handled
  batch,     \* the auto-categorization request being handled
  response,  \* the last response sent to the caller
  committed, \* history: the rule list as the last completed mutation left it
  requestEngine, \* rule list of the engine the last handleAutoCategorization made
  handleAdded,   \* history: ids added and not removed through handleAutoCategorization
  ledger,    \* the category of each transaction at the remote service
  updates,   \* updateTransaction requests sent by the auto-categorization request
  detect,    \* the subscription detection being done and what it returned
  flow,      \* the cash-flow request being handled and its summary
  http,      \* one request through EnhancedMaybeFinanceAPI and its attempts
  limiter,   \* the RateLimiter, the clock, and the requests asking it for a token
  csv        \* the import_csv request being handled, the account and the cache

engineVars == <<rules, nextSeq, call>>

toolVars ==
  <<running, manage, batch, response, committed, requestEngine, handleAdded,
    ledger, updates>>

clientVars == <<http, limiter, csv>>

analysisVars == <<detect, flow, clientVars>>

vars == <<rules, nextSeq, call, running, manage, batch, response, committed, requestEngine, handleAdded, ledger, updates, detect, flow, http, limiter, csv>>

----------------------------------------------------------------------------
(* Bounds *)

\* addRule calls in one behaviour
MaxAdds == 2

\* rules removed in one behaviour
MaxRemoves == 4

\* transactions in one batch given to detectSubscriptions
MaxBatch == 8

\* transactions the remote service holds when a cash-flow summary is asked
MaxFlow == 5

\* tokensPerMinute of the RateLimiter under study
MaxTokens == 1

\* concurrent requests asking the RateLimiter for a token
MaxRequests == 3

\* clock ticks in one behaviour
MaxTime == 5

\* import_csv requests in one behaviour
MaxImports == 2

----------------------------------------------------------------------------
(* SPECIAL_CATEGORIES *)

REQUIRED_PURCHASES == "Required Purchases"
DISCRETIONARY == "Discretionary Spending"
SUBSCRIPTIONS == "Subscriptions"
SPENDING_BUT_ASSETS == "Spending but Assets"

Null == "null"

----------------------------------------------------------------------------
(* Numbers *)

Num(n) == [num |-> n, den |-> 1]

\* n + 1/2
NumAndHalf(n) == [num |-> 2 * n + 1, den |-> 2]

NumLess(a, b) == a.num * b.den < b.num * a.den

IsFiniteInteger(a) == a.den # 0 /\ a.num % a.den = 0

Euro(n) == n * 100

Abs(n) == IF n < 0 THEN -n ELSE n

----------------------------------------------------------------------------
(* Texts *)

Texts ==
  {"Netflix", "Albert Heijn", "AH Supermarket", "Coffee Corner", "Food Truck",
   "Cloud Storage", "Monthly Subscription Fee", "Huur Woning",
   "Bosch Grill Restaurant", "Lunch Tools", "Acme", "Monthly Plan"}

toLowerCase(s) ==
  CASE s = "Netflix" -> "netflix"
    [] s = "Albert Heijn" -> "albert heijn"
    [] s = "AH Supermarket" -> "ah supermarket"
    [] s = "Coffee Corner" -> "coffee corner"
    [] s = "Food Truck" -> "food truck"
    [] s = "Cloud Storage" -> "cloud storage"
    [] s = "Monthly Subscription Fee" -> "monthly subscription fee"
    [] s = "Huur Woning" -> "huur woning"
    [] s = "Bosch Grill Restaurant" -> "bosch grill restaurant"
    [] s = "Lunch Tools" -> "lunch tools"
    [] s = "Acme" -> "acme"
    [] s = "Monthly Plan" -> "monthly plan"
    [] OTHER -> s

\* the pattern sources and keywords of the program that occur in s
Found(s) ==
  CASE s = "netflix" -> {"netflix"}
    [] s = "albert heijn" -> {"albert\\s*heijn"}
    [] s = "ah supermarket" -> {"supermar", "supermarket", "market"}
    [] s = "coffee corner" -> {"coffee"}
    [] s = "food truck" -> {"food"}
    [] s = "cloud storage" -> {}
    [] s = "monthly subscription fee" -> {"subscription", "monthly"}
    [] s = "huur woning" -> {"huur", "woning"}
    [] s = "bosch grill restaurant" -> {"restaurant", "grill", "bosch"}
    [] s = "lunch tools" -> {"lunch", "tool"}
    [] s = "acme" -> {}
    [] s = "monthly plan" -> {"monthly"}
    [] OTHER -> {}

\* RegExp.prototype.test for a pattern without the g or y flag
RegExpTest(pattern, s) == pattern \in Found(s)

\* String.prototype.includes
Includes(s, keyword) == keyword \in Found(s)

\* a || b on nullable strings: a unless it is null or empty
OrElse(a, b) == IF a = Null \/ a = "" THEN b ELSE a

----------------------------------------------------------------------------
(* Dates *)

MonthLengths == <<31, 29, 31, 30, 31, 30, 31, 31, 30, 31, 30, 31>>

RECURSIVE DateInMonth(_, _)
DateInMonth(day, month) ==
  IF month > Len(MonthLengths) \/ day < MonthLengths[month]
  THEN day + 1
  ELSE DateInMonth(day - MonthLengths[month], month + 1)

\* Date.prototype.getDate
getDate(day) == DateInMonth(day, 1)

\* Date.prototype.getDay: 0 is Sunday
getDay(day) == (day + 1) % 7

----------------------------------------------------------------------------
(* Rules *)

Rule(id, category, priority, merchantPatterns, descriptionPatterns, min, max, dayOfMonth, isRecurring) ==
  [id |-> id, category |-> category, priority |-> Num(priority), seq |-> 0,
   conditions |->
     [merchantPatterns |-> merchantPatterns,
      descriptionPatterns |-> descriptionPatterns,
      amountRange |-> [min |-> min, max |-> max],
      dayOfWeek |-> {},
      dayOfMonth |-> dayOfMonth,
      isRecurring |-> isRecurring]]

Undefined == {}

DefaultRuleList ==
<<
  Rule("groceries_nl", REQUIRED_PURCHASES, 95,
       {"albert\\s*heijn", "jumbo", "lidl", "aldi", "plus", "coop", "dirk",
        "vomar", "deen", "spar", "ekoplaza", "marqt"},
       {"supermar", "grocery", "boodschap"},
       Undefined, Undefined, {}, FALSE),
  Rule("groceries_general", REQUIRED_PURCHASES, 90,
       {},
       {"grocery", "supermarket", "food\\s*store", "market"},
       {Euro(10)}, {Euro(300)}, {}, FALSE),
  Rule("utilities_energy", REQUIRED_PURCHASES, 100,
       {"eneco", "vattenfall", "essent", "nuon", "greenchoice", "pure\\s*energie",
        "vandebron", "budget\\s*energie", "engie"},
       {"electricity", "gas", "energie", "stroom"},
       Undefined, Undefined, {}, FALSE),
  Rule("utilities_water", REQUIRED_PURCHASES, 100,
       {"waternet", "vitens", "pwn", "evides", "dunea"},
       {"water"},
       Undefined, Undefined, {}, FALSE),
  Rule("utilities_internet", REQUIRED_PURCHASES, 95,
       {"ziggo", "kpn", "vodafone", "t-mobile", "tele2", "xs4all", "online\\.nl"},
       {"internet", "broadband", "telecom"},
       Undefined, Undefined, {}, TRUE),
  Rule("rent", REQUIRED_PURCHASES, 100,
       {},
       {"rent", "huur", "mortgage", "hypotheek", "woning", "verhuur"},
       {Euro(400)}, Undefined, {1, 2, 3, 28, 29, 30, 31}, FALSE),
  Rule("insurance", REQUIRED_PURCHASES, 95,
       {"achmea", "aegon", "asr", "nn", "nationale.*nederlanden",
        "zilveren\\s*kruis", "cz", "vgz", "menzis", "fbto"},
       {"insurance", "verzekering", "zorgverzekering", "inboedel",
        "aansprakelijk"},
       Undefined, Undefined, {}, TRUE),
  Rule("streaming", SUBSCRIPTIONS, 85,
       {"netflix", "spotify", "disney", "hbo", "videoland", "amazon\\s*prime",
        "apple\\s*(tv|music)", "youtube\\s*premium", "viaplay", "nlziet",
        "discovery"},
       {},
       {Euro(5)}, {Euro(50)}, {}, TRUE),
  Rule("software", SUBSCRIPTIONS, 80,
       {"adobe", "microsoft", "dropbox", "google\\s*storage", "github", "slack",
        "notion", "1password", "lastpass"},
       {"subscription", "monthly", "license"},
       Undefined, Undefined, {}, TRUE),
  Rule("gym", SUBSCRIPTIONS, 80,
       {"basic.*fit", "fit\\s*for\\s*free", "sportcity", "anytime\\s*fitness",
        "gym", "fitness"},
       {"gym", "fitness", "sport"},
       Undefined, Undefined, {}, TRUE),
  Rule("dining_restaurants", DISCRETIONARY, 70,
       {"restaurant", "cafe", "bistro", "brasserie", "pizzeria", "sushi",
        "burger", "grill"},
       {"restaurant", "dining", "lunch", "dinner", "breakfast", "brunch"},
       {Euro(15)}, Undefined, {}, FALSE),
  Rule("dining_fast_food", DISCRETIONARY, 65,
       {"mcdonald", "burger\\s*king", "kfc", "subway", "domino", "pizza\\s*hut",
        "new\\s*york\\s*pizza", "thuisbezorgd", "uber\\s*eats", "deliveroo"},
       {},
       {Euro(5)}, {Euro(50)}, {}, FALSE),
  Rule("entertainment", DISCRETIONARY, 60,
       {"pathe", "cinema", "theater", "concert", "ticketmaster", "museum",
        "event"},
       {"ticket", "entertainment", "show", "movie"},
       Undefined, Undefined, {}, FALSE),
  Rule("shopping_clothing", DISCRETIONARY, 60,
       {"h\\s*&\\s*m", "zara", "primark", "c\\s*&\\s*a", "hema", "uniqlo", "nike",
        "adidas"},
       {"clothing", "fashion", "apparel"},
       Undefined, Undefined, {}, FALSE),
  Rule("electronics", SPENDING_BUT_ASSETS, 75,
       {"mediamarkt", "coolblue", "bol\\.com", "apple", "samsung", "bcc",
        "expert", "paradigit"},
       {"laptop", "computer", "phone", "tablet", "tv", "television", "monitor",
        "headphone"},
       {Euro(100)}, Undefined, {}, FALSE),
  Rule("furniture", SPENDING_BUT_ASSETS, 75,
       {"ikea", "leen\\s*bakker", "kwantum", "praxis", "gamma", "karwei",
        "hornbach"},
       {"furniture", "meubel", "desk", "chair", "table", "couch", "bed",
        "mattress"},
       {Euro(50)}, Undefined, {}, FALSE),
  Rule("tools", SPENDING_BUT_ASSETS, 70,
       {"bosch", "makita", "dewalt", "toolstation"},
       {"tool", "drill", "equipment", "gereedschap"},
       {Euro(30)}, Undefined, {}, FALSE)
>>

\* the rule list of a new engine; seq is the history of registration order
DefaultRules ==
  [i \in 1..Len(DefaultRuleList) |-> [DefaultRuleList[i] EXCEPT !.seq = i]]

----------------------------------------------------------------------------
(* Transactions *)

Amount(neg, cents) == [valid |-> TRUE, neg |-> neg, cents |-> cents]

\* an amount string that parseFloat cannot read, such as "abc"
BadAmount == [valid |-> FALSE, neg |-> FALSE, cents |-> 0]

Tx(id, merchant, name, amount, date) ==
  [id |-> id, merchant |-> merchant, name |-> name, amount |-> amount,
   date |-> date, category |-> Null]

t_netflix == Tx("t_netflix", "Netflix", "Netflix", Amount(FALSE, 1199), 4)
t_ah == Tx("t_ah", "Albert Heijn", "AH Supermarket", Amount(TRUE, 4500), 5)
t_coffee == Tx("t_coffee", Null, "Coffee Corner", Amount(FALSE, 350), 6)
t_food == Tx("t_food", Null, "Food Truck", Amount(FALSE, 1200), 7)
t_cloud == Tx("t_cloud", Null, "Cloud Storage", Amount(FALSE, 999), 9)
t_monthly == Tx("t_monthly", Null, "Monthly Subscription Fee", Amount(FALSE, 2000), 10)
t_rent == Tx("t_rent", Null, "Huur Woning", Amount(TRUE, 95000), 31)
t_tie == Tx("t_tie", "Bosch Grill Restaurant", "Lunch Tools", Amount(FALSE, 4000), 12)
t_bad == Tx("t_bad", "Netflix", "Netflix", BadAmount, 14)

\* the transactions handed to categorize
Transactions ==
  {t_netflix, t_ah, t_coffee, t_food, t_cloud, t_monthly, t_rent, t_tie, t_bad}

NoTx == Tx("none", Null, Null, BadAmount, 0)

----------------------------------------------------------------------------
(* parseAmount *)

parseAmountThrows(amount) == ~amount.valid

parseAmount(amount) == IF amount.neg THEN -amount.cents ELSE amount.cents

----------------------------------------------------------------------------
(* CategorizationEngine *)

\* the comparator with its operands exchanged: a.priority - b.priority
ComesBeforeAscending(b, a) == NumLess(b.priority, a.priority)

\* the comparator (a, b) => b.priority - a.priority is positive: b goes first
ComesBefore(b, a) == NumLess(a.priority, b.priority)

\* an unstable sort: r also moves behind the elements of its own priority
RECURSIVE InsertSortedUnstable(_, _)
InsertSortedUnstable(sorted, r) ==
  IF sorted = <<>> THEN <<r>>
  ELSE IF ~ComesBefore(r, Head(sorted))
    THEN <<Head(sorted)>> \o InsertSortedUnstable(Tail(sorted), r)
  ELSE <<r>> \o sorted

\* Array.prototype.sort is stable.  r stood in front of every element of
\* sorted: it moves behind those the comparator places before it, and stays
\* in front of the others
RECURSIVE InsertSorted(_, _)
InsertSorted(sorted, r) ==
  IF sorted = <<>> THEN <<r>>
  ELSE IF ComesBefore(Head(sorted), r)
    THEN <<Head(sorted)>> \o InsertSorted(Tail(sorted), r)
  ELSE <<r>> \o sorted

\* rs.sort((a, b) => b.priority - a.priority)
RECURSIVE SortByPriority(_)
SortByPriority(rs) ==
  IF rs = <<>> THEN <<>>
  ELSE InsertSorted(SortByPriority(Tail(rs)), Head(rs))

Parsed(tx) ==
  [amount |-> Abs(parseAmount(tx.amount)),
   merchant |-> toLowerCase(OrElse(OrElse(tx.merchant, tx.name), "")),
   description |-> toLowerCase(OrElse(tx.name, "")),
   date |-> tx.date]

matchesRule(rule, parsed) ==
  LET conditions == rule.conditions IN
  /\ conditions.merchantPatterns # {} =>
       \E pattern \in conditions.merchantPatterns :
         RegExpTest(pattern, parsed.merchant)
  /\ conditions.descriptionPatterns # {} =>
       \E pattern \in conditions.descriptionPatterns :
         \/ RegExpTest(pattern, parsed.description)
         \/ RegExpTest(pattern, parsed.merchant)
  /\ \A min \in conditions.amountRange.min : ~(parsed.amount < min)
  /\ \A max \in conditions.amountRange.max : ~(parsed.amount > max)
  /\ conditions.dayOfWeek # {} => getDay(parsed.date) \in conditions.dayOfWeek
  /\ conditions.dayOfMonth # {} => getDate(parsed.date) \in conditions.dayOfMonth

groceryKeywords == {"market", "grocery", "food", "supermar", "grocer"}

isLikelyGrocery(merchant, description, amount) ==
  /\ \E keyword \in groceryKeywords :
       Includes(merchant, keyword) \/ Includes(description, keyword)
  /\ amount >= Euro(10)
  /\ amount <= Euro(300)

subscriptionAmounts ==
  {499, 599, 699, 799, 899, 999, 1099, 1199, 1299, 1499, 1599, 1999, 2499, 2999}

isLikelySubscription(merchant, amount) ==
  \/ amount \in subscriptionAmounts
  \/ Includes(merchant, "subscription")
  \/ Includes(merchant, "monthly")

Returned(category, fired) ==
  [outcome |-> "returned", result |-> category, fired |-> fired]

Threw == [outcome |-> "threw", result |-> Null, fired |-> 0]

\* the first rule of sortedRules, from position i on, that matches; 0 if none
RECURSIVE FirstMatch(_, _, _)
FirstMatch(sortedRules, parsed, i) ==
  IF i > Len(sortedRules) THEN 0
  ELSE IF matchesRule(sortedRules[i], parsed) THEN i
  ELSE FirstMatch(sortedRules, parsed, i + 1)

\* a default that gives up with null
fallbackNull(parsed) ==
  IF isLikelyGrocery(parsed.merchant, parsed.description, parsed.amount)
    THEN REQUIRED_PURCHASES
  ELSE IF isLikelySubscription(parsed.merchant, parsed.amount)
    THEN SUBSCRIPTIONS
  ELSE Null

\* a default that labels the rest with the display text of the tools
fallbackUncategorized(parsed) ==
  IF isLikelyGrocery(parsed.merchant, parsed.description, parsed.amount)
    THEN REQUIRED_PURCHASES
  ELSE IF isLikelySubscription(parsed.merchant, parsed.amount)
    THEN SUBSCRIPTIONS
  ELSE "Uncategorized"

\* the default categorization of categorize, after no rule matched
fallback(parsed) ==
  IF isLikelyGrocery(parsed.merchant, parsed.description, parsed.amount)
    THEN REQUIRED_PURCHASES
  ELSE IF isLikelySubscription(parsed.merchant, parsed.amount)
    THEN SUBSCRIPTIONS
  ELSE DISCRETIONARY

\* categorize(transaction) on an engine whose rule list is rs; fired is the
\* registration number of the rule that decided, 0 when none did
categorize(rs, tx) ==
  IF parseAmountThrows(tx.amount) THEN Threw
  ELSE
    LET parsed == Parsed(tx)
        sortedRules == SortByPriority(rs)
        i == FirstMatch(sortedRules, parsed, 1)
    IN IF i > 0 THEN Returned(sortedRules[i].category, sortedRules[i].seq)
       ELSE Returned(fallback(parsed), 0)

\* categorize sorting this.rules itself instead of a copy
RulesAfterCategorizeInPlace(rs) == SortByPriority(rs)

\* this.rules after categorize: it sorts a copy
RulesAfterCategorize(rs) == rs

\* the transaction object after categorize: nothing assigns to it
TransactionAfterCategorize(tx) == tx

\* addRule without the re-sort
addRuleUnsorted(rs, rule) == Append(rs, rule)

\* this.rules after addRule(rule)
addRule(rs, rule) == SortByPriority(Append(rs, rule))

\* findIndex(r => r.id === ruleId), 0 when there is none
RECURSIVE findIndex(_, _, _)
findIndex(rs, ruleId, i) ==
  IF i > Len(rs) THEN 0
  ELSE IF rs[i].id = ruleId THEN i
  ELSE findIndex(rs, ruleId, i + 1)

\* rs.splice(index, 1)
Splice(rs, index) ==
  [i \in 1..(Len(rs) - 1) |-> IF i < index THEN rs[i] ELSE rs[i + 1]]

\* a removal that takes out every rule with the id
removeRuleEvery(rs, ruleId) ==
  SelectSeq(rs, LAMBDA r : r.id # ruleId)

\* this.rules after removeRule(ruleId)
removeRule(rs, ruleId) ==
  LET index == findIndex(rs, ruleId, 1)
  IN IF index > 0 THEN Splice(rs, index) ELSE rs

removeRuleResult(rs, ruleId) == findIndex(rs, ruleId, 1) > 0

\* [...this.rules]
getRules(rs) == rs

\* whether the array getRules returns is the engine's own array: the spread
\* makes a new array of the same rule objects
ReturnsOwnArray == FALSE

\* what a caller does to the array it got from getRules
ArrayChanges == {"pop", "shift", "reverse", "clear"}

Reverse(rs) == [i \in 1..Len(rs) |-> rs[Len(rs) + 1 - i]]

ChangedArray(rs, change) ==
  CASE change = "pop" -> SubSeq(rs, 1, Len(rs) - 1)
    [] change = "shift" -> Tail(rs)
    [] change = "reverse" -> Reverse(rs)
    [] OTHER -> <<>>

----------------------------------------------------------------------------
(* Calls on one engine *)

CustomPatterns == {"netflix"}

\* rules a caller registers
AddableRules ==
  {[id |-> id, category |-> category, priority |-> Num(priority), seq |-> 0,
    conditions |->
      [merchantPatterns |-> merchantPatterns, descriptionPatterns |-> {},
       amountRange |-> [min |-> {}, max |-> {}],
       dayOfWeek |-> {}, dayOfMonth |-> {}, isRecurring |-> FALSE]] :
     id \in {"custom_a", "custom_b"},
     category \in {"Custom A"},
     priority \in {85, 100},
     merchantPatterns \in {{"netflix"}}}

RemovableIds ==
  {"dining_restaurants", "dining_fast_food", "entertainment",
   "shopping_clothing", "custom_a", "no_such_rule"}

----------------------------------------------------------------------------
(* Tool requests and responses *)

\* a priority that JSON cannot carry as a finite number: 1e999 reads as Infinity
Infinity == [num |-> 1, den |-> 0]

\* a priority that is not a number
NaN == [num |-> 0, den |-> 0]

\* a pattern text that new RegExp rejects
BadPattern == "("

RuleInput(id, category, priority, merchantPatterns) ==
  [id |-> id, category |-> category, priority |-> priority,
   merchantPatterns |-> merchantPatterns]

NoRuleInput == RuleInput(Null, Null, NaN, {})

ManageRequest(action, ruleId, hasRule, rule) ==
  [action |-> action, ruleId |-> ruleId, hasRule |-> hasRule, rule |-> rule]

AddRequest(rule) == ManageRequest("add", Null, TRUE, rule)

ValidAddRequests ==
  {AddRequest(RuleInput("custom_a", "Custom A", Num(85), {"netflix"})),
   AddRequest(RuleInput("custom_b", "Custom B", Num(100), {"netflix"}))}

InvalidAddRequests ==
  {AddRequest(RuleInput("custom_a", "Custom A", NumAndHalf(85), {"netflix"})),
   AddRequest(RuleInput("custom_a", "Custom A", Infinity, {"netflix"})),
   AddRequest(RuleInput("custom_a", "Custom A", NaN, {"netflix"})),
   AddRequest(RuleInput("custom_a", "Custom A", Num(85), {BadPattern}))}

ToolRemoveIds == {"custom_a", "streaming"}

OtherManageRequests ==
  {ManageRequest("list", Null, FALSE, NoRuleInput),
   ManageRequest("add", Null, FALSE, NoRuleInput)}
  \cup {ManageRequest("remove", id, FALSE, NoRuleInput) : id \in ToolRemoveIds}

ManageRequests == ValidAddRequests \cup InvalidAddRequests \cup OtherManageRequests

\* the requests sent to the shared engine
SharedManageRequests ==
  ValidAddRequests
  \cup {AddRequest(RuleInput("custom_a", "Custom A", Num(85), {BadPattern})),
        ManageRequest("list", Null, FALSE, NoRuleInput),
        ManageRequest("remove", "custom_a", FALSE, NoRuleInput)}

NoRequest == ManageRequest("none", Null, FALSE, NoRuleInput)

\* z.number() refuses NaN and accepts every other number
ZodNumber(x) == ~(x.num = 0 /\ x.den = 0)

\* ManageCategoryRulesSchema.parse
SchemaAccepts(req) ==
  /\ req.action \in {"list", "add", "remove"}
  /\ req.hasRule => ZodNumber(req.rule.priority)

\* new RegExp(p, 'i') returns
RegExpCompiles(p) == p # BadPattern

\* newRule of the add branch, registered as number seq
NewRule(rule, seq) ==
  [id |-> rule.id, category |-> rule.category, priority |-> rule.priority,
   seq |-> seq,
   conditions |->
     [merchantPatterns |-> rule.merchantPatterns, descriptionPatterns |-> {},
      amountRange |-> [min |-> {}, max |-> {}],
      dayOfWeek |-> {}, dayOfMonth |-> {}, isRecurring |-> FALSE]]

Ids(rs) == [i \in DOMAIN rs |-> rs[i].id]

Response(tool, req, isError, success, ids) ==
  [tool |-> tool, req |-> req, isError |-> isError, success |-> success,
   ids |-> ids]

NoResponse == Response("none", NoRequest, FALSE, FALSE, <<>>)

\* what the rule-management branch decides for a request, before it touches
\* the engine
ManageBranch(req) ==
  IF ~SchemaAccepts(req) THEN "zod_error"
  ELSE IF req.action = "list" THEN "list"
  ELSE IF req.action = "add" /\ req.hasRule
    THEN IF \A p \in req.rule.merchantPatterns : RegExpCompiles(p)
         THEN "add" ELSE "error"
  ELSE IF req.action = "remove" /\ req.ruleId # Null THEN "remove"
  ELSE "error"

\* the rule list the branch leaves in an engine whose list was rs
ManageRules(rs, req, seq) ==
  CASE ManageBranch(req) = "add" -> addRule(rs, NewRule(req.rule, seq))
    [] ManageBranch(req) = "remove" -> removeRule(rs, req.ruleId)
    [] OTHER -> rs

\* the response of the branch
ManageResponse(tool, rs, req) ==
  CASE ManageBranch(req) = "list" -> Response(tool, req, FALSE, TRUE, Ids(getRules(rs)))
    [] ManageBranch(req) = "add" -> Response(tool, req, FALSE, TRUE, <<>>)
    [] ManageBranch(req) = "remove" ->
         Response(tool, req, FALSE, removeRuleResult(rs, req.ruleId), <<>>)
    [] OTHER -> Response(tool, req, TRUE, FALSE, <<>>)

\* the transactions the remote service holds
LedgerTransactions == <<t_netflix, t_coffee>>

LedgerIds == {LedgerTransactions[i].id : i \in DOMAIN LedgerTransactions}

\* getTransactions: each transaction with its category at the service
getTransactions(categories) ==
  [i \in DOMAIN LedgerTransactions |->
     [LedgerTransactions[i] EXCEPT !.category = categories[LedgerTransactions[i].id]]]

\* transactions.filter(tx => !tx.category)
RECURSIVE FilterUncategorized(_)
FilterUncategorized(txs) ==
  IF txs = <<>> THEN <<>>
  ELSE IF Head(txs).category = Null
    THEN <<Head(txs)>> \o FilterUncategorized(Tail(txs))
  ELSE FilterUncategorized(Tail(txs))

IdleBatch ==
  [pc |-> "idle", tool |-> "none", dryRun |-> FALSE,
   onlyUncategorized |-> TRUE, toProcess |-> <<>>,
   i |-> 0, suggested |-> Null, categorized |-> 0, changes |-> <<>>,
   firstEpoch |-> 0, lastEpoch |-> 0]

IdleManage == [pc |-> "idle", req |-> NoRequest]

\* a handler that could be suspended anywhere
YieldsEverywhere(pc) == TRUE

\* the places where a handler gives up the thread: an await, or its return
Yields(pc) == pc \in {"idle", "fetch", "categorized", "updating"}

\* a handler may take a step when it holds the thread or nobody does
MayRun(task) == running = "none" \/ running = task

ThreadAfter(task, pc) == IF Yields(pc) THEN "none" ELSE task

----------------------------------------------------------------------------
(* Dates of transactions: new Date(tx.date), on a process whose time zone  *)
(* is UTC.  A date string that Date cannot read gives the time value NaN.  *)

\* tx.date of a transaction whose date string cannot be read
InvalidDate == -1

\* new Date(): the day the requests are made, 2026-01-10
Today == 740

FirstYear == 2024

IsLeap(year) == year % 4 = 0 /\ (year % 100 # 0 \/ year % 400 = 0)

DaysInYear(year) == IF IsLeap(year) THEN 366 ELSE 365

DaysInMonth(year, month) ==
  IF month = 2 THEN (IF IsLeap(year) THEN 29 ELSE 28)
  ELSE IF month \in {4, 6, 9, 11} THEN 30 ELSE 31

\* the day number of the first day of a year
RECURSIVE DayOfYearStart(_)
DayOfYearStart(year) ==
  IF year <= FirstYear THEN 0
  ELSE DayOfYearStart(year - 1) + DaysInYear(year - 1)

\* the day number of the first day of a month (months from 1)
RECURSIVE DayOfMonthStart(_, _)
DayOfMonthStart(year, month) ==
  IF month = 1 THEN DayOfYearStart(year)
  ELSE DayOfMonthStart(year, month - 1) + DaysInMonth(year, month - 1)

RECURSIVE getFullYearFrom(_, _)
getFullYearFrom(day, year) ==
  IF day < DayOfYearStart(year + 1) THEN year ELSE getFullYearFrom(day, year + 1)

getFullYear(day) == getFullYearFrom(day, FirstYear)

RECURSIVE getMonthFrom(_, _, _)
getMonthFrom(day, year, month) ==
  IF month = 12 \/ day < DayOfMonthStart(year, month + 1) THEN month
  ELSE getMonthFrom(day, year, month + 1)

\* months from 1 here, from 0 in JavaScript
getMonth(day) == getMonthFrom(day, getFullYear(day), 1)

\* getDate of a day of any year
getDateOf(day) == day - DayOfMonthStart(getFullYear(day), getMonth(day)) + 1

\* the date of year/month/date as Date normalises it: a month after
\* December is in the next year, a date after the month's end runs on
MakeDay(year, month, date) ==
  IF month > 12 THEN DayOfMonthStart(year + 1, month - 12) + date - 1
  ELSE DayOfMonthStart(year, month) + date - 1

----------------------------------------------------------------------------
(* detectSubscriptions *)

\* a transaction as the remote service returns it
Payment(id, merchant, name, amount, date, classification, excluded, account) ==
  [id |-> id, merchant |-> merchant, name |-> name, amount |-> amount,
   date |-> date, category |-> Null, classification |-> classification,
   excluded |-> excluded, account |-> account]

\* `${tx.merchant || tx.name}:${amount.toFixed(2)}`: the two parts of the key;
\* an amount is a whole number of cents, which toFixed(2) writes as it is
GroupKey(tx) ==
  [merchant |-> OrElse(tx.merchant, tx.name),
   amount |-> Abs(parseAmount(tx.amount))]

\* the first loop throws when parseAmount throws on an expense transaction
GroupingThrows(txs) ==
  \E i \in DOMAIN txs :
    txs[i].classification = "expense" /\ parseAmountThrows(txs[i].amount)

\* the keys of merchantGroups in the order Object.entries lists them: the
\* order in which the loop first met them
RECURSIVE GroupKeys(_, _)
GroupKeys(txs, seen) ==
  IF txs = <<>> THEN <<>>
  ELSE IF Head(txs).classification # "expense" \/ GroupKey(Head(txs)) \in seen
    THEN GroupKeys(Tail(txs), seen)
  ELSE <<GroupKey(Head(txs))>>
         \o GroupKeys(Tail(txs), seen \cup {GroupKey(Head(txs))})

\* merchantGroups[key]
RECURSIVE GroupOf(_, _)
GroupOf(txs, key) ==
  IF txs = <<>> THEN <<>>
  ELSE IF Head(txs).classification = "expense" /\ GroupKey(Head(txs)) = key
    THEN <<Head(txs)>> \o GroupOf(Tail(txs), key)
  ELSE GroupOf(Tail(txs), key)

\* dates.sort((a, b) => a - b), for time values none of which is NaN
RECURSIVE InsertAscending(_, _)
InsertAscending(sorted, d) ==
  IF sorted = <<>> THEN <<d>>
  ELSE IF d < sorted[Len(sorted)]
    THEN Append(InsertAscending(SubSeq(sorted, 1, Len(sorted) - 1), d),
                sorted[Len(sorted)])
  ELSE Append(sorted, d)

RECURSIVE SortAscending(_)
SortAscending(ds) ==
  IF ds = <<>> THEN <<>>
  ELSE InsertAscending(SortAscending(SubSeq(ds, 1, Len(ds) - 1)), ds[Len(ds)])

Dates(txs) == SortAscending([i \in DOMAIN txs |-> txs[i].date])

\* intervals in days
Intervals(dates) == [i \in 1..(Len(dates) - 1) |-> dates[i + 1] - dates[i]]

RECURSIVE Sum(_)
Sum(ns) == IF ns = <<>> THEN 0 ELSE Head(ns) + Sum(Tail(ns))

\* Math.max(...ns)
Max(ns) == CHOOSE n \in {ns[i] : i \in DOMAIN ns} : \A i \in DOMAIN ns : ns[i] <= n

\* a date that Date cannot read makes the time values NaN, then an interval,
\* avgInterval and daysBetween; every comparison with NaN is false
HasInvalidDate(txs) == \E i \in DOMAIN txs : txs[i].date = InvalidDate

\* daysBetween >= low && daysBetween <= high, avgInterval being the sum of
\* the intervals over their number
DaysBetweenIn(intervals, low, high) ==
  /\ Sum(intervals) >= low * Len(intervals)
  /\ Sum(intervals) <= high * Len(intervals)

Frequency(intervals) ==
  IF DaysBetweenIn(intervals, 6, 8) THEN "weekly"
  ELSE IF DaysBetweenIn(intervals, 25, 35) THEN "monthly"
  ELSE IF DaysBetweenIn(intervals, 350, 380) THEN "yearly"
  ELSE Null

ExpectedInterval(frequency) ==
  CASE frequency = "weekly" -> 7
    [] frequency = "monthly" -> 30
    [] frequency = "yearly" -> 365
    [] OTHER -> 0

\* Math.abs(interval - expectedInterval) <= expectedInterval * 0.15
WithinTolerance(interval, expectedInterval) ==
  Abs(interval - expectedInterval) * 100 <= expectedInterval * 15

\* withinTolerance.length / intervals.length, as a fraction
calculateConfidence(intervals, expectedInterval) ==
  IF Len(intervals) = 0 THEN Num(0)
  ELSE [num |-> Cardinality({i \in DOMAIN intervals :
                               WithinTolerance(intervals[i], expectedInterval)}),
        den |-> Len(intervals)]

calculateNextDate(lastDate, frequency) ==
  CASE frequency = "weekly" -> lastDate + 7
    [] frequency = "monthly" ->
         MakeDay(getFullYear(lastDate), getMonth(lastDate) + 1, getDateOf(lastDate))
    [] frequency = "yearly" ->
         MakeDay(getFullYear(lastDate) + 1, getMonth(lastDate), getDateOf(lastDate))

\* txs.length < 3: too few occurrences
MinOccurrences == 3

TooFewTwo(txs) == Len(txs) < 2

TooFew(txs) == Len(txs) < MinOccurrences

\* confidence > 0.7
ConfidentFromHalf(confidence) == 2 * confidence.num >= confidence.den

Confident(confidence) == 10 * confidence.num > 7 * confidence.den

\* key.split(':'): the text before the first colon of the key
MerchantName(key) ==
  IF key.merchant = "Shop: Online" THEN "Shop" ELSE key.merchant

\* NaN among amounts in cents, none of which is negative
NotANumber == -1

\* parseFloat of the text between the first colon of the key and the next:
\* the amount, unless the merchant has a colon of its own (' Online')
KeyAmount(key) ==
  IF key.merchant = "Shop: Online" THEN NotANumber ELSE key.amount

\* the subscriptions one group gives: none or one
Analyze(key, txs) ==
  IF TooFew(txs) \/ HasInvalidDate(txs) THEN <<>>
  ELSE LET dates == Dates(txs)
           intervals == Intervals(dates)
           frequency == Frequency(intervals)
           confidence == calculateConfidence(intervals, ExpectedInterval(frequency))
       IN IF frequency # Null /\ Confident(confidence)
          THEN <<[merchant |-> MerchantName(key), amount |-> KeyAmount(key),
                  frequency |-> frequency, lastDate |-> Max(dates),
                  nextExpectedDate |-> calculateNextDate(Max(dates), frequency),
                  confidence |-> confidence, transactions |-> txs]>>
          ELSE <<>>

RECURSIVE AnalyzeAll(_, _)
AnalyzeAll(keys, txs) ==
  IF keys = <<>> THEN <<>>
  ELSE Analyze(Head(keys), GroupOf(txs, Head(keys))) \o AnalyzeAll(Tail(keys), txs)

\* subscriptions.sort((a, b) => b.confidence - a.confidence): a stable sort
RECURSIVE InsertByConfidence(_, _)
InsertByConfidence(sorted, s) ==
  IF sorted = <<>> THEN <<s>>
  ELSE IF NumLess(sorted[Len(sorted)].confidence, s.confidence)
    THEN Append(InsertByConfidence(SubSeq(sorted, 1, Len(sorted) - 1), s),
                sorted[Len(sorted)])
  ELSE Append(sorted, s)

RECURSIVE SortByConfidence(_)
SortByConfidence(subs) ==
  IF subs = <<>> THEN <<>>
  ELSE InsertByConfidence(SortByConfidence(SubSeq(subs, 1, Len(subs) - 1)),
                          subs[Len(subs)])

Unsorted(subs) == subs

SortSubscriptions(subs) == SortByConfidence(subs)

detectSubscriptions(txs) ==
  IF GroupingThrows(txs) THEN [outcome |-> "threw", subscriptions |-> <<>>]
  ELSE [outcome |-> "returned",
        subscriptions |-> SortSubscriptions(AnalyzeAll(GroupKeys(txs, {}), txs))]

----------------------------------------------------------------------------
(* The transactions detection is asked about *)

\* a gym paid weekly, once two days late
g1 == Payment("g1", "Gym", "Gym", Amount(FALSE, 2500), 701, "expense", FALSE, "card")
g2 == Payment("g2", "Gym", "Gym", Amount(FALSE, 2500), 710, "expense", FALSE, "card")
g3 == Payment("g3", "Gym", "Gym", Amount(FALSE, 2500), 717, "expense", FALSE, "card")
g4 == Payment("g4", "Gym", "Gym", Amount(FALSE, 2500), 724, "expense", FALSE, "card")
g5 == Payment("g5", "Gym", "Gym", Amount(FALSE, 2500), 731, "expense", FALSE, "card")

\* Netflix, 11.99, paid 30 and 31 days apart
n1 == Payment("n1", "Netflix", "Netflix", Amount(FALSE, 1199), 670, "expense", FALSE, "checking")
n2 == Payment("n2", Null, "Netflix", Amount(TRUE, 1199), 700, "expense", FALSE, "checking")
n3 == Payment("n3", "Netflix", "NETFLIX.COM", Amount(FALSE, 1199), 731, "expense", FALSE, "checking")

\* an excluded payment, a refund, an unreadable amount, an unreadable date
nx == Payment("nx", "Netflix", "Netflix", Amount(FALSE, 1199), 730, "expense", TRUE, "checking")
ni == Payment("ni", "Netflix", "Netflix", Amount(FALSE, 1199), 685, "income", FALSE, "checking")
nb == Payment("nb", "Netflix", "Netflix", BadAmount, 690, "expense", FALSE, "checking")
nd == Payment("nd", "Netflix", "Netflix", Amount(FALSE, 1199), InvalidDate, "expense", FALSE, "checking")

\* an insurance paid once a year
i1 == Payment("i1", "Insurance", "Insurance", Amount(FALSE, 30000), 5, "expense", FALSE, "checking")
i2 == Payment("i2", "Insurance", "Insurance", Amount(FALSE, 30000), 371, "expense", FALSE, "checking")
i3 == Payment("i3", "Insurance", "Insurance", Amount(FALSE, 30000), 736, "expense", FALSE, "checking")

Payments == <<g1, g2, g3, g4, g5, n1, n2, n3, nx, ni, nb, nd, i1, i2, i3>>

\* the transactions of Payments at the given places, in their order
RECURSIVE Pick(_, _)
Pick(places, i) ==
  IF i > Len(Payments) THEN <<>>
  ELSE IF i \in places THEN <<Payments[i]>> \o Pick(places, i + 1)
  ELSE Pick(places, i + 1)

Batches ==
  {Pick(places, 1) :
     places \in {s \in SUBSET DOMAIN Payments : Cardinality(s) <= MaxBatch}}

\* an order of 12.00 every week from a merchant whose name holds a colon
s1 == Payment("s1", "Shop: Online", "Order", Amount(TRUE, 1200), 710, "expense", FALSE, "card")
s2 == Payment("s2", "Shop: Online", "Order", Amount(TRUE, 1200), 717, "expense", FALSE, "card")
s3 == Payment("s3", "Shop: Online", "Order", Amount(TRUE, 1200), 724, "expense", FALSE, "card")
s4 == Payment("s4", "Shop: Online", "Order", Amount(TRUE, 1200), 731, "expense", FALSE, "card")

ShopPayments == <<s1, s2, s3, s4, g3, g4, g5>>

RECURSIVE PickShop(_, _)
PickShop(places, i) ==
  IF i > Len(ShopPayments) THEN <<>>
  ELSE IF i \in places THEN <<ShopPayments[i]>> \o PickShop(places, i + 1)
  ELSE PickShop(places, i + 1)

DetectBatches ==
  Batches \cup {PickShop(places, 1) : places \in SUBSET DOMAIN ShopPayments}

\* DetectSubscriptionsSchema: lookbackDays and accountIds of the requests
DetectRequests ==
  {[lookbackDays |-> 90, accountIds |-> {}],
   [lookbackDays |-> 30, accountIds |-> {}],
   [lookbackDays |-> 90, accountIds |-> {"checking"}]}

\* the remote service's answer to getTransactions({startDate, endDate}): the
\* transactions it cannot date are not held back
RECURSIVE TransactionsBetween(_, _, _)
TransactionsBetween(txs, startDate, endDate) ==
  IF txs = <<>> THEN <<>>
  ELSE IF Head(txs).date = InvalidDate
          \/ (Head(txs).date >= startDate /\ Head(txs).date <= endDate)
    THEN <<Head(txs)>> \o TransactionsBetween(Tail(txs), startDate, endDate)
  ELSE TransactionsBetween(Tail(txs), startDate, endDate)

\* transactions.filter(tx => params.accountIds.includes(tx.account?.id || ''))
RECURSIVE FilterAccounts(_, _)
FilterAccounts(txs, accountIds) ==
  IF accountIds = {} THEN txs
  ELSE IF txs = <<>> THEN <<>>
  ELSE IF Head(txs).account \in accountIds
    THEN <<Head(txs)>> \o FilterAccounts(Tail(txs), accountIds)
  ELSE FilterAccounts(Tail(txs), accountIds)

IdleDetect ==
  [pc |-> "idle", via |-> "none", lookbackDays |-> 0, accountIds |-> {},
   ledger |-> <<>>, transactions |-> <<>>, outcome |-> "none",
   subscriptions |-> <<>>]

----------------------------------------------------------------------------
(* handleCashFlowTools: get_rolling_cash_flow and get_cash_flow *)

\* the transactions the cash-flow requests find at the remote service
c_salary == [Payment("c_salary", Null, "Salary", Amount(FALSE, 300000), 728, "income", FALSE, "checking") EXCEPT !.category = "Salary"]
c_in == Payment("c_in", Null, "From checking", Amount(FALSE, 5000), 735, "income", FALSE, "savings")
c_out == Payment("c_out", Null, "To savings", Amount(TRUE, 5000), 735, "expense", FALSE, "checking")
c_out2 == Payment("c_out2", "Cafe", "Cafe", Amount(FALSE, 5000), 735, "expense", FALSE, "card")
c_near == Payment("c_near", "Shop", "Shop", Amount(FALSE, 5001), 735, "expense", FALSE, "checking")
c_food == [Payment("c_food", "Market", "Market", Amount(FALSE, 12000), 733, "expense", FALSE, "checking") EXCEPT !.category = "Groceries"]
c_move == Payment("c_move", Null, "Move", Amount(FALSE, 7500), 735, "transfer", FALSE, "checking")
c_bad == Payment("c_bad", "Shop", "Shop", BadAmount, 736, "expense", FALSE, "checking")
c_void == Payment("c_void", Null, "Adjustment", BadAmount, 734, Null, FALSE, "checking")

CashTransactions == <<c_salary, c_in, c_out, c_out2, c_near, c_food, c_move, c_bad, c_void>>

RECURSIVE PickCash(_, _)
PickCash(places, i) ==
  IF i > Len(CashTransactions) THEN <<>>
  ELSE IF i \in places THEN <<CashTransactions[i]>> \o PickCash(places, i + 1)
  ELSE PickCash(places, i + 1)

CashBatches ==
  {PickCash(places, 1) :
     places \in {s \in SUBSET DOMAIN CashTransactions : Cardinality(s) <= MaxFlow}}

\* the arguments of a request; days is a JavaScript number, dates are absent
\* (the empty set) or date strings
FlowRequest(tool, days, startDate, endDate, accountIds, excludeTransfers, groupByCategory, groupByAccount, includeInsights) ==
  [tool |-> tool, days |-> days, startDate |-> startDate, endDate |-> endDate,
   accountIds |-> accountIds, excludeTransfers |-> excludeTransfers,
   groupByCategory |-> groupByCategory, groupByAccount |-> groupByAccount,
   includeInsights |-> includeInsights]

Rolling(days, accountIds, excludeTransfers, groupByCategory, groupByAccount, includeInsights) ==
  FlowRequest("get_rolling_cash_flow", days, Undefined, Undefined, accountIds,
              excludeTransfers, groupByCategory, groupByAccount, includeInsights)

\* get_cash_flow takes two optional dates and an optional accountId
CashFlow(startDate, endDate, accountIds) ==
  FlowRequest("get_cash_flow", NaN, startDate, endDate, accountIds,
              TRUE, FALSE, FALSE, TRUE)

RollingRequests ==
  {Rolling(Num(30), {}, TRUE, FALSE, FALSE, TRUE),
   Rolling(Num(30), {}, FALSE, TRUE, TRUE, TRUE),
   Rolling(Num(30), {"checking"}, TRUE, TRUE, TRUE, FALSE),
   Rolling(Num(7), {"savings"}, TRUE, FALSE, TRUE, TRUE),
   Rolling(Num(0), {}, TRUE, FALSE, FALSE, TRUE),
   Rolling(Num(0 - 1), {}, TRUE, FALSE, FALSE, TRUE),
   Rolling(NumAndHalf(1), {}, TRUE, FALSE, FALSE, TRUE),
   Rolling(Num(366), {}, TRUE, FALSE, FALSE, TRUE)}

CashFlowRequests ==
  {CashFlow({710}, {740}, {}),
   CashFlow({740}, {740}, {}),
   CashFlow({740}, {733}, {"checking"}),
   CashFlow({InvalidDate}, {740}, {}),
   CashFlow(Undefined, {740}, {})}

FlowRequests == RollingRequests \cup CashFlowRequests

\* get_cash_flow: Math.ceil((end - start) / day) when both dates are given,
\* 30 otherwise; the dates are whole days
CashFlowDays(req) ==
  IF req.startDate # Undefined /\ req.endDate # Undefined
  THEN LET start == CHOOSE d \in req.startDate : TRUE
           end == CHOOSE d \in req.endDate : TRUE
       IN IF start = InvalidDate \/ end = InvalidDate THEN NaN
          ELSE Num(end - start)
  ELSE Num(30)

\* the arguments get_rolling_cash_flow is given: its own, or the ones
\* get_cash_flow passes on (days and accountIds; the rest take their defaults)
RollingArguments(req) ==
  IF req.tool = "get_cash_flow"
  THEN Rolling(CashFlowDays(req), req.accountIds, TRUE, FALSE, FALSE, TRUE)
  ELSE req

\* z.number().int().positive().max(365)
MaxDays == 365

NotNegative(days) == days.num >= 0

Positive(days) == days.num > 0

DaysAccepted(days) ==
  /\ ZodNumber(days)
  /\ IsFiniteInteger(days)
  /\ Positive(days)
  /\ days.num <= MaxDays * days.den

\* the value of a number the schema accepted
DaysOf(days) == days.num \div days.den

\* Math.abs(Math.abs(amount1) - Math.abs(amount2)) < 0.01 in double
\* arithmetic: among the amounts of CashTransactions, 50.01 - 50 comes out
\* as 0.00999999999999801
OneCentApartBelowTolerance == {<<5000, 5001>>}

AmountsMatch(amount1, amount2) ==
  \/ Abs(amount1) = Abs(amount2)
  \/ <<Abs(amount1), Abs(amount2)>> \in OneCentApartBelowTolerance
  \/ <<Abs(amount2), Abs(amount1)>> \in OneCentApartBelowTolerance

OppositeClassifications(tx1, tx2) ==
  \/ tx1.classification = "income" /\ tx2.classification = "expense"
  \/ tx1.classification = "expense" /\ tx2.classification = "income"

\* parseAmount is called on both transactions of every same-day pair
excludeTransfersThrows(txs) ==
  \E i, j \in DOMAIN txs :
    /\ i < j
    /\ txs[i].date = txs[j].date
    /\ parseAmountThrows(txs[i].amount) \/ parseAmountThrows(txs[j].amount)

transferIds(txs) ==
  {txs[i].id : i \in {k \in DOMAIN txs :
     \E j \in DOMAIN txs :
       /\ k # j
       /\ txs[k].date = txs[j].date
       /\ OppositeClassifications(txs[k], txs[j])
       /\ AmountsMatch(parseAmount(txs[k].amount), parseAmount(txs[j].amount))}}

RECURSIVE WithoutIds(_, _)
WithoutIds(txs, ids) ==
  IF txs = <<>> THEN <<>>
  ELSE IF Head(txs).id \in ids THEN WithoutIds(Tail(txs), ids)
  ELSE <<Head(txs)>> \o WithoutIds(Tail(txs), ids)

excludeTransfers(txs) == WithoutIds(txs, transferIds(txs))

\* filtered.filter(t => t.classification === c).reduce(sum + parseAmount)
RECURSIVE SumOf(_, _)
SumOf(txs, classification) ==
  IF txs = <<>> THEN 0
  ELSE (IF Head(txs).classification = classification
        THEN parseAmount(Head(txs).amount) ELSE 0)
       + SumOf(Tail(txs), classification)

Inflows(txs) == SumOf(txs, "income")

Outflows(txs) == SumOf(txs, "expense")

\* every transaction that is not income counted as outflow
OutflowsOfTheRest(txs) == SumOf(txs, "expense") + SumOf(txs, "transfer")

\* outflows of the summary
TotalOutflows(txs) == Outflows(txs)

CountOf(txs, classification) ==
  Cardinality({i \in DOMAIN txs : txs[i].classification = classification})

\* tx.category || "Uncategorized"
CategoryOf(tx) == OrElse(tx.category, "Uncategorized")

\* tx.account?.name || 'Unknown Account'
AccountOf(tx) == OrElse(tx.account, "Unknown Account")

groupByCategory(txs) ==
  [c \in {CategoryOf(txs[i]) : i \in DOMAIN txs} |->
     LET group == SelectSeq(txs, LAMBDA tx : CategoryOf(tx) = c) IN
     [inflows |-> Inflows(group), outflows |-> Outflows(group),
      net |-> Inflows(group) - Outflows(group)]]

groupByAccount(txs) ==
  [a \in {AccountOf(txs[i]) : i \in DOMAIN txs} |->
     LET group == SelectSeq(txs, LAMBDA tx : AccountOf(tx) = a) IN
     [inflows |-> Inflows(group), outflows |-> Outflows(group),
      net |-> Inflows(group) - Outflows(group),
      transactionCount |-> Len(group)]]

\* the reduce of the totals parses the income and the expense amounts;
\* the groupings and the insights parse every amount
SummaryThrows(txs, args) ==
  \/ \E i \in DOMAIN txs :
       /\ txs[i].classification \in {"income", "expense"}
       /\ parseAmountThrows(txs[i].amount)
  \/ /\ args.groupByCategory \/ args.groupByAccount \/ args.includeInsights
     /\ \E i \in DOMAIN txs : parseAmountThrows(txs[i].amount)

\* a net flow of zero reported as a surplus
NetFlowInsightFromZero(netFlow) ==
  IF netFlow < 0 THEN <<"negative cash flow">> ELSE <<"positive cash flow">>

\* if (metrics.netFlow < 0) ... else if (metrics.netFlow > 0) ...
NetFlowInsight(netFlow) ==
  IF netFlow < 0 THEN <<"negative cash flow">>
  ELSE IF netFlow > 0 THEN <<"positive cash flow">> ELSE <<>>

\* generateInsights: the kinds of the insights pushed, in order; amounts are
\* cents, so 50 is 5000
generateInsights(txs, netFlow, days, outflows) ==
  LET large == {i \in DOMAIN txs :
                  Abs(parseAmount(txs[i].amount)) * days > 3 * outflows}
      weekend == SelectSeq(txs, LAMBDA tx :
                    tx.date # InvalidDate /\ getDay(tx.date) \in {0, 6})
      weekendSpending == Outflows(weekend)
  IN NetFlowInsight(netFlow)
     \o (IF netFlow < (0 - 5000) * days THEN <<"daily deficit">>
         ELSE IF netFlow > 5000 * days THEN <<"daily surplus">> ELSE <<>>)
     \o (IF large # {} THEN <<"large transactions">> ELSE <<>>)
     \o (IF 7 * weekendSpending > 3 * outflows THEN <<"weekend spending">>
         ELSE <<>>)

NoSummary ==
  [inflows |-> 0, outflows |-> 0, netFlow |-> 0,
   avgDailyInflow |-> NaN, avgDailyOutflow |-> NaN, avgDailyNet |-> NaN,
   transactionCount |-> [total |-> 0, filtered |-> 0, inflows |-> 0, outflows |-> 0],
   byCategory |-> Undefined, byAccount |-> Undefined, insights |-> Undefined]

\* the result object of get_rolling_cash_flow; x / params.days is the
\* fraction of x over days
Summary(transactions, filtered, args, days) ==
  LET inflows == Inflows(filtered)
      outflows == TotalOutflows(filtered)
      netFlow == inflows - outflows
  IN [inflows |-> inflows, outflows |-> outflows, netFlow |-> netFlow,
      avgDailyInflow |-> [num |-> inflows, den |-> days],
      avgDailyOutflow |-> [num |-> outflows, den |-> days],
      avgDailyNet |-> [num |-> netFlow, den |-> days],
      transactionCount |->
        [total |-> Len(filtered),
         filtered |-> Len(transactions) - Len(filtered),
         inflows |-> CountOf(filtered, "income"),
         outflows |-> CountOf(filtered, "expense")],
      byCategory |-> IF args.groupByCategory THEN {groupByCategory(filtered)}
                     ELSE Undefined,
      byAccount |-> IF args.groupByAccount THEN {groupByAccount(filtered)}
                    ELSE Undefined,
      insights |-> IF args.includeInsights
                   THEN {generateInsights(filtered, netFlow, days, outflows)}
                   ELSE Undefined]

\* get_rolling_cash_flow from the answer of getTransactions to its return
\* or its throw, for the transactions the remote service holds
rollingCashFlow(held, args) ==
  LET days == DaysOf(args.days)
      transactions == TransactionsBetween(held, Today - days, Today)
      byAccount == FilterAccounts(transactions, args.accountIds)
      throwsEarly == args.excludeTransfers /\ excludeTransfersThrows(byAccount)
      filtered == IF args.excludeTransfers /\ ~throwsEarly
                  THEN excludeTransfers(byAccount) ELSE byAccount
  IN IF throwsEarly \/ SummaryThrows(filtered, args)
     THEN [outcome |-> "threw", transactions |-> transactions,
           filtered |-> <<>>, summary |-> NoSummary]
     ELSE [outcome |-> "returned", transactions |-> transactions,
           filtered |-> filtered,
           summary |-> Summary(transactions, filtered, args, days)]

IdleFlow ==
  [pc |-> "idle", req |-> Rolling(NaN, {}, FALSE, FALSE, FALSE, FALSE),
   args |-> Rolling(NaN, {}, FALSE, FALSE, FALSE, FALSE),
   ledger |-> <<>>, fetched |-> FALSE, transactions |-> <<>>,
   filtered |-> <<>>, outcome |-> "none", summary |-> NoSummary]

----------------------------------------------------------------------------
(* EnhancedMaybeFinanceAPI: the retries of one request *)

\* private retryDelays = [1000, 2000, 4000]
retryDelays == <<1000, 2000, 4000>>

\* how an attempt ends: a response of the given status, or no response at
\* all (network error, timeout)
NoResponseAtAll == 0
Statuses == {200, 400, 404, 422, 429, 500, 503}
AttemptResults == Statuses \cup {NoResponseAtAll}

\* axios resolves a response with a 2xx status and rejects every other
Resolves(result) == result # NoResponseAtAll /\ result >= 200 /\ result < 300

\* retries after every error response
shouldRetryAnyStatus(result, retryCount) ==
  IF retryCount >= Len(retryDelays) THEN FALSE
  ELSE IF result = NoResponseAtAll THEN TRUE
  ELSE result >= 400

shouldRetry(result, retryCount) ==
  IF retryCount >= Len(retryDelays) THEN FALSE
  ELSE IF result = NoResponseAtAll THEN TRUE
  ELSE result = 429 \/ result = 503 \/ result = 504 \/ result >= 500

\* formatError: the text of the Error thrown
formatError(result) ==
  IF result = NoResponseAtAll THEN "[Network] API request failed"
  ELSE IF result = 401 THEN "[401] Invalid API key or authentication failed"
  ELSE IF result = 403 THEN "[403] Access forbidden - check API permissions"
  ELSE IF result = 404 THEN "[404] Resource not found"
  ELSE IF result = 429 THEN "[429] Rate limit exceeded - please try again later"
  ELSE IF result = 422 THEN "[422] Validation error: Invalid request data"
  ELSE "[" \o ToString(result) \o "] API request failed"

\* a request not yet made: its place, config.__retryCount, the results of
\* its attempts, the delays waited, and what the caller gets
IdleHttp ==
  [pc |-> "idle", retryCount |-> 0, attempts |-> <<>>, waited |-> <<>>,
   delay |-> 0, outcome |-> "none", error |-> ""]

----------------------------------------------------------------------------
(* RateLimiter: time in ticks of half the time one token takes to refill,  *)
(* tokens in the units one tick refills                                    *)

\* this.tokens -= 1, in units
OneToken == 2

\* this.maxTokens, in units
MaxUnits == MaxTokens * OneToken

Requests == 1..MaxRequests

Min(a, b) == IF a < b THEN a ELSE b

\* refill at time now: [tokens, lastRefill]
refill(l, now) ==
  [l EXCEPT !.tokens = Min(MaxUnits, l.tokens + (now - l.lastRefill)),
            !.lastRefill = now]

\* (1 - this.tokens) / this.refillRate, in ticks
waitTime(tokens) == OneToken - tokens

\* constructor: a full bucket; no request has asked for a token
NewRateLimiter ==
  [tokens |-> MaxUnits, lastRefill |-> 0, now |-> 0,
   pc |-> [r \in Requests |-> "idle"], wake |-> [r \in Requests |-> 0],
   dispatched |-> 0]

----------------------------------------------------------------------------
(* import_csv: rows, the transactions of the account, duplicate detection  *)

\* a row of the file after Papa.parse and the field mapping: its date text
\* (a day, or InvalidDate for a text parseDate cannot read), its amount text
\* and its description
Row(date, amount, name) == [date |-> date, amount |-> amount, name |-> name]

r_coffee == Row(735, Amount(TRUE, 450), "Coffee Corner")
r_coffee_lower == Row(735, Amount(TRUE, 450), "coffee corner")
r_rent == Row(732, Amount(TRUE, 95000), "Huur Woning")
r_acme == Row(732, Amount(FALSE, 250000), "Acme")
r_bad == Row(733, BadAmount, "Acme")
r_undated == Row(InvalidDate, Amount(TRUE, 450), "Coffee Corner")

Files ==
  {<<r_coffee, r_rent>>, <<r_coffee, r_coffee_lower, r_acme>>,
   <<r_bad, r_rent>>, <<r_undated, r_acme>>}

\* what the account holds before the first import
Accounts == {<<>>, <<r_rent>>, <<r_coffee_lower>>}

\* processRow throws 'Missing date field', 'Unable to parse date' or
\* 'Unable to parse amount'
processRowThrows(row) == row.date = InvalidDate \/ parseAmountThrows(row.amount)

\* processRow: the date as yyyy-MM-dd, the amount as the text of its number
processRow(row) == [date |-> row.date, amount |-> row.amount, name |-> row.name]

\* `${date}:${amount.toFixed(2)}:${name.toLowerCase()}`, of which the md5
\* hash is compared
HashKey(tx) ==
  <<tx.date, parseAmount(tx.amount), toLowerCase(OrElse(tx.name, ""))>>

\* days between two dates above which isDuplicate does not compare
DuplicateWindow == 7

isDuplicate(transaction, existingTransactions) ==
  \E j \in DOMAIN existingTransactions :
    LET existing == existingTransactions[j] IN
    /\ ~(Abs(transaction.date - existing.date) > DuplicateWindow)
    /\ HashKey(existing) = HashKey(transaction)

NoResult == [imported |-> 0, duplicates |-> 0, errors |-> 0, preview |-> 0]

\* no import yet: the client (caching or not) and the account are fixed by
\* the first request
IdleImport ==
  [pc |-> "idle", imports |-> 0, caching |-> FALSE, account |-> <<>>,
   cache |-> Undefined, rows |-> <<>>, i |-> 0, skipDuplicates |-> FALSE,
   dryRun |-> FALSE, existing |-> <<>>, pending |-> Undefined,
   result |-> NoResult, outcome |-> "none"]

----------------------------------------------------------------------------
(* Calls on one engine, continued *)

NoCall ==
  [op |-> "new", arg |-> Null, tx |-> NoTx, outcome |-> "none",
   result |-> Null, fired |-> 0, listed |-> <<>>]

\* addRule calls made so far
Added == nextSeq - (Len(DefaultRules) + 1)

\* rules removed so far
Removed == Len(DefaultRules) + Added - Len(rules)

Init ==
  /\ rules = DefaultRules
  /\ nextSeq = Len(DefaultRules) + 1
  /\ call = NoCall
  /\ running = "none"
  /\ manage = IdleManage
  /\ batch = IdleBatch
  /\ response = NoResponse
  /\ committed = DefaultRules
  /\ requestEngine = DefaultRules
  /\ handleAdded = {}
  /\ ledger = [id \in LedgerIds |-> Null]
  /\ updates = <<>>
  /\ detect = IdleDetect
  /\ flow = IdleFlow
  /\ http = IdleHttp
  /\ limiter = NewRateLimiter
  /\ csv = IdleImport

AddRule ==
  \E rule \in AddableRules :
    /\ Added < MaxAdds
    /\ rules' = addRule(rules, [rule EXCEPT !.seq = nextSeq])
    /\ nextSeq' = nextSeq + 1
    /\ call' = [NoCall EXCEPT !.op = "addRule", !.arg = rule.id,
                              !.outcome = "returned"]
    /\ UNCHANGED <<toolVars, analysisVars>>

RemoveRule ==
  \E ruleId \in RemovableIds :
    /\ Removed < MaxRemoves
    /\ rules' = removeRule(rules, ruleId)
    /\ call' = [NoCall EXCEPT !.op = "removeRule", !.arg = ruleId,
                              !.outcome = "returned",
                              !.result = IF removeRuleResult(rules, ruleId)
                                         THEN "true" ELSE "false"]
    /\ UNCHANGED <<nextSeq, toolVars, analysisVars>>

GetRules ==
  /\ call' = [NoCall EXCEPT !.op = "getRules", !.outcome = "returned",
                            !.listed = getRules(rules)]
  /\ UNCHANGED <<rules, nextSeq, toolVars, analysisVars>>

Categorize ==
  \E tx \in Transactions :
    LET r == categorize(rules, tx) IN
    /\ rules' = RulesAfterCategorize(rules)
    /\ call' = [NoCall EXCEPT !.op = "categorize", !.arg = tx.id,
                              !.tx = TransactionAfterCategorize(tx),
                              !.outcome = r.outcome, !.result = r.result,
                              !.fired = r.fired]
    /\ UNCHANGED <<nextSeq, toolVars, analysisVars>>

Next == AddRule \/ RemoveRule \/ GetRules \/ Categorize

Spec == Init /\ [][Next]_vars

\* the caller changes the array getRules returned
ChangeReturnedArray ==
  \E change \in ArrayChanges :
    /\ call.op = "getRules"
    /\ call.listed # <<>>
    /\ call' = [call EXCEPT !.op = "changeArray", !.arg = change,
                            !.listed = ChangedArray(call.listed, change)]
    /\ rules' = IF ReturnsOwnArray THEN ChangedArray(rules, change) ELSE rules
    /\ UNCHANGED <<nextSeq, toolVars, analysisVars>>

NextRules == AddRule \/ RemoveRule \/ GetRules \/ ChangeReturnedArray

SpecRules == Init /\ [][NextRules]_vars

----------------------------------------------------------------------------
(* handleAutoCategorization: every request makes its own engine *)

\* get_categorization_rules
HandleManageRules ==
  \E req \in ManageRequests :
    LET engine == DefaultRules
        seq == Len(DefaultRules) + 1
        answer == ManageResponse("get_categorization_rules", engine, req)
    IN
    /\ MayRun("manage")
    /\ requestEngine' = ManageRules(engine, req, seq)
    /\ response' = answer
    /\ handleAdded' =
         IF ManageBranch(req) = "add" THEN handleAdded \cup {req.rule.id}
         ELSE IF ManageBranch(req) = "remove" /\ answer.success
           THEN handleAdded \ {req.ruleId}
         ELSE handleAdded
    /\ running' = ThreadAfter("manage", "idle")
    /\ UNCHANGED <<analysisVars, engineVars, manage, batch, committed, ledger,
                   updates>>

----------------------------------------------------------------------------
(* The auto-categorization request, on the engine whose rule list is given *)

Failed(tool) == Response(tool, NoRequest, TRUE, FALSE, <<>>)

Succeeded(tool) == Response(tool, NoRequest, FALSE, TRUE, <<>>)

\* AutoCategorizeSchema.parse(args), up to the await of getTransactions
AutoStart(tool) ==
  \E dryRun \in BOOLEAN, onlyUncategorized \in BOOLEAN :
    /\ batch.pc = "idle"
    /\ running = "none"
    /\ batch' = [IdleBatch EXCEPT !.pc = "fetch", !.tool = tool,
                                  !.dryRun = dryRun,
                                  !.onlyUncategorized = onlyUncategorized]
    /\ updates' = <<>>
    /\ running' = ThreadAfter("batch", "fetch")
    /\ UNCHANGED <<analysisVars, engineVars, manage, response, committed,
                   requestEngine,
                   handleAdded, ledger>>

\* getTransactions answers: filter, and enter the loop
AutoFetched(tool) ==
  /\ batch.pc = "fetch"
  /\ batch.tool = tool
  /\ MayRun("batch")
  /\ \/ /\ batch' = [batch EXCEPT !.pc = "loop", !.i = 1,
                       !.toProcess =
                          IF batch.onlyUncategorized
                          THEN FilterUncategorized(getTransactions(ledger))
                          ELSE getTransactions(ledger)]
        /\ running' = ThreadAfter("batch", "loop")
        /\ UNCHANGED response
     \/ /\ batch' = IdleBatch
        /\ response' = Failed(tool)
        /\ running' = ThreadAfter("batch", "idle")
  /\ UNCHANGED <<analysisVars, engineVars, manage, committed, requestEngine,
                 handleAdded,
                 ledger, updates>>

\* the head of the loop: engine.categorize(transaction), or the return after
\* the last transaction
AutoCategorize(tool, engine) ==
  /\ batch.pc = "loop"
  /\ batch.tool = tool
  /\ MayRun("batch")
  /\ IF batch.i > Len(batch.toProcess)
     THEN /\ batch' = IdleBatch
          /\ response' = Succeeded(tool)
          /\ running' = ThreadAfter("batch", "idle")
          /\ UNCHANGED call
     ELSE LET tx == batch.toProcess[batch.i]
              r == categorize(engine, tx)
          IN /\ call' = [NoCall EXCEPT !.op = "categorize", !.arg = tx.id,
                                       !.tx = TransactionAfterCategorize(tx),
                                       !.outcome = r.outcome,
                                       !.result = r.result, !.fired = r.fired]
             /\ IF r.outcome = "threw"
                THEN /\ batch' = IdleBatch
                     /\ response' = Failed(tool)
                     /\ running' = ThreadAfter("batch", "idle")
                ELSE /\ batch' = [batch EXCEPT
                                    !.pc = "categorized", !.suggested = r.result,
                                    !.firstEpoch = IF batch.i = 1 THEN Added + Removed
                                                   ELSE batch.firstEpoch,
                                    !.lastEpoch = Added + Removed]
                     /\ running' = ThreadAfter("batch", "categorized")
                     /\ UNCHANGED response
  /\ UNCHANGED <<analysisVars, rules, nextSeq, manage, committed,
                 requestEngine, handleAdded,
                 ledger, updates>>

\* the body of the loop after the await of categorize
AutoResume(tool) ==
  /\ batch.pc = "categorized"
  /\ batch.tool = tool
  /\ MayRun("batch")
  /\ LET tx == batch.toProcess[batch.i] IN
     IF batch.suggested # Null /\ batch.suggested # tx.category
     THEN IF batch.dryRun
          THEN /\ batch' = [batch EXCEPT !.pc = "loop", !.i = batch.i + 1,
                                         !.categorized = batch.categorized + 1]
               /\ running' = ThreadAfter("batch", "loop")
               /\ UNCHANGED updates
          ELSE /\ batch' = [batch EXCEPT !.pc = "updating",
                                         !.categorized = batch.categorized + 1]
               /\ updates' = Append(updates, <<tx.id, batch.suggested>>)
               /\ running' = ThreadAfter("batch", "updating")
     ELSE /\ batch' = [batch EXCEPT !.pc = "loop", !.i = batch.i + 1]
          /\ running' = ThreadAfter("batch", "loop")
          /\ UNCHANGED updates
  /\ UNCHANGED <<analysisVars, engineVars, manage, response, committed,
                 requestEngine,
                 handleAdded, ledger>>

\* a handler that undoes the updates of the call when one of them fails
AutoUpdatedRollsBack(tool) ==
  /\ batch.pc = "updating"
  /\ batch.tool = tool
  /\ MayRun("batch")
  /\ LET tx == batch.toProcess[batch.i] IN
     \/ /\ ledger' = [ledger EXCEPT ![tx.id] = batch.suggested]
        /\ batch' = [batch EXCEPT !.pc = "loop", !.i = batch.i + 1,
                                  !.changes = Append(batch.changes, tx.id)]
        /\ running' = ThreadAfter("batch", "loop")
        /\ UNCHANGED response
     \/ /\ batch' = IdleBatch
        /\ response' = Failed(tool)
        /\ running' = ThreadAfter("batch", "idle")
        /\ ledger' = [id \in LedgerIds |->
                        IF \E k \in DOMAIN batch.toProcess :
                             batch.toProcess[k].id = id
                        THEN batch.toProcess[
                               CHOOSE k \in DOMAIN batch.toProcess :
                                 batch.toProcess[k].id = id].category
                        ELSE ledger[id]]
  /\ UNCHANGED <<analysisVars, engineVars, manage, committed, requestEngine,
                 handleAdded,
                 updates>>

\* updateTransaction answers
AutoUpdated(tool) ==
  /\ batch.pc = "updating"
  /\ batch.tool = tool
  /\ MayRun("batch")
  /\ LET tx == batch.toProcess[batch.i] IN
     \/ /\ ledger' = [ledger EXCEPT ![tx.id] = batch.suggested]
        /\ batch' = [batch EXCEPT !.pc = "loop", !.i = batch.i + 1,
                                  !.changes = Append(batch.changes, tx.id)]
        /\ running' = ThreadAfter("batch", "loop")
        /\ UNCHANGED response
     \/ /\ batch' = IdleBatch
        /\ response' = Failed(tool)
        /\ running' = ThreadAfter("batch", "idle")
        /\ UNCHANGED ledger
  /\ UNCHANGED <<analysisVars, engineVars, manage, committed, requestEngine,
                 handleAdded,
                 updates>>

\* auto_categorize_all of handleAutoCategorization: a new engine
HandleAutoStart == AutoStart("auto_categorize_all")
HandleAutoFetched == AutoFetched("auto_categorize_all")
HandleAutoCategorize == AutoCategorize("auto_categorize_all", DefaultRules)
HandleAutoResume == AutoResume("auto_categorize_all")
HandleAutoUpdated == AutoUpdated("auto_categorize_all")

NextHandle ==
  \/ HandleManageRules
  \/ HandleAutoStart
  \/ HandleAutoFetched
  \/ HandleAutoCategorize
  \/ HandleAutoResume
  \/ HandleAutoUpdated

SpecHandle == Init /\ [][NextHandle]_vars

----------------------------------------------------------------------------
(* registerAutoCategorization: one engine for all requests *)

\* manage_category_rules up to the call of engine.addRule; list, remove and
\* the refusals are done at once
SharedManageRules ==
  \E req \in SharedManageRequests :
    /\ manage.pc = "idle"
    /\ running = "none"
    /\ ManageBranch(req) = "add" => Added < MaxAdds
    /\ ManageBranch(req) = "remove" => Removed < MaxRemoves
    /\ IF ManageBranch(req) = "add"
       THEN /\ manage' = [pc |-> "push", req |-> req]
            /\ running' = ThreadAfter("manage", "push")
            /\ UNCHANGED <<rules, response, committed>>
       ELSE /\ rules' = ManageRules(rules, req, nextSeq)
            /\ committed' = rules'
            /\ response' = ManageResponse("manage_category_rules", rules, req)
            /\ running' = ThreadAfter("manage", "idle")
            /\ UNCHANGED manage
    /\ UNCHANGED <<analysisVars, nextSeq, call, batch, requestEngine,
                   handleAdded, ledger,
                   updates>>

\* this.rules.push(rule)
SharedAddRulePush ==
  /\ manage.pc = "push"
  /\ MayRun("manage")
  /\ rules' = Append(rules, NewRule(manage.req.rule, nextSeq))
  /\ nextSeq' = nextSeq + 1
  /\ manage' = [manage EXCEPT !.pc = "sort"]
  /\ running' = ThreadAfter("manage", "sort")
  /\ UNCHANGED <<analysisVars, call, batch, response, committed,
                 requestEngine, handleAdded,
                 ledger, updates>>

\* this.rules.sort(...), and the answer
SharedAddRuleSort ==
  /\ manage.pc = "sort"
  /\ MayRun("manage")
  /\ rules' = SortByPriority(rules)
  /\ committed' = rules'
  /\ response' = Response("manage_category_rules", manage.req, FALSE, TRUE, <<>>)
  /\ manage' = IdleManage
  /\ running' = ThreadAfter("manage", "idle")
  /\ UNCHANGED <<analysisVars, nextSeq, call, batch, requestEngine,
                 handleAdded, ledger,
                 updates>>

\* auto_categorize of registerAutoCategorization: the shared engine
SharedAutoStart == AutoStart("auto_categorize")
SharedAutoFetched == AutoFetched("auto_categorize")
SharedAutoCategorize == AutoCategorize("auto_categorize", rules)
SharedAutoResume == AutoResume("auto_categorize")
SharedAutoUpdated == AutoUpdated("auto_categorize")

NextShared ==
  \/ SharedManageRules
  \/ SharedAddRulePush
  \/ SharedAddRuleSort
  \/ SharedAutoStart
  \/ SharedAutoFetched
  \/ SharedAutoCategorize
  \/ SharedAutoResume
  \/ SharedAutoUpdated

SpecShared == Init /\ [][NextShared]_vars

----------------------------------------------------------------------------
(* Subscription detection: the engine called on a batch, and the           *)
(* detect_subscriptions request of handleAutoCategorization                *)

\* engine.detectSubscriptions(transactions)
DetectSubscriptions ==
  /\ detect.pc = "idle"
  /\ \E txs \in DetectBatches :
    LET r == detectSubscriptions(txs) IN
    /\ detect' = [IdleDetect EXCEPT !.pc = "done", !.via = "engine",
                                    !.ledger = txs, !.transactions = txs,
                                    !.outcome = r.outcome,
                                    !.subscriptions = r.subscriptions]
    /\ UNCHANGED <<engineVars, toolVars, flow, clientVars>>

\* DetectSubscriptionsSchema.parse(args), up to the await of getTransactions;
\* the remote service holds the transactions of ledger
HandleDetectStart ==
  /\ detect.pc = "idle"
  /\ \E txs \in DetectBatches, req \in DetectRequests :
    /\ detect' = [IdleDetect EXCEPT !.pc = "fetch", !.via = "tool",
                                    !.lookbackDays = req.lookbackDays,
                                    !.accountIds = req.accountIds,
                                    !.ledger = txs]
    /\ UNCHANGED <<engineVars, toolVars, flow, clientVars>>

\* getTransactions answers: filter by account, detect, and answer; or
\* getTransactions fails and the handler throws
HandleDetectFetched ==
  /\ detect.pc = "fetch"
  /\ \/ LET fetched == TransactionsBetween(detect.ledger,
                                           Today - detect.lookbackDays, Today)
            filtered == FilterAccounts(fetched, detect.accountIds)
            r == detectSubscriptions(filtered)
        IN detect' = [detect EXCEPT !.pc = "done", !.transactions = filtered,
                                    !.outcome = r.outcome,
                                    !.subscriptions = r.subscriptions]
     \/ detect' = [IdleDetect EXCEPT !.pc = "done", !.via = "tool",
                                     !.outcome = "fetch failed"]
  /\ UNCHANGED <<engineVars, toolVars, flow, clientVars>>

NextDetect == DetectSubscriptions \/ HandleDetectStart \/ HandleDetectFetched

SpecDetect == Init /\ [][NextDetect]_vars

----------------------------------------------------------------------------
(* The cash-flow request: get_rolling_cash_flow, or get_cash_flow, which   *)
(* calls it                                                                *)

\* the schema is parsed, and the request for the transactions of the last
\* days is sent, or the handler throws the schema's error; the remote
\* service holds the transactions of ledger
FlowStart ==
  /\ flow.pc = "idle"
  /\ \E txs \in CashBatches, req \in FlowRequests :
       LET args == RollingArguments(req) IN
       /\ flow' =
            IF DaysAccepted(args.days)
            THEN [IdleFlow EXCEPT !.pc = "fetch", !.req = req, !.args = args,
                                  !.ledger = txs, !.fetched = TRUE]
            ELSE [IdleFlow EXCEPT !.pc = "done", !.req = req, !.args = args,
                                  !.ledger = txs, !.outcome = "rejected"]
       /\ UNCHANGED <<engineVars, toolVars, detect, clientVars>>

\* getTransactions answers: filter by account, exclude transfers, compute the
\* summary; or a parseAmount throws, or getTransactions fails, and the handler
\* throws 'Failed to calculate cash flow'
FlowFetched ==
  /\ flow.pc = "fetch"
  /\ \/ LET r == rollingCashFlow(flow.ledger, flow.args)
        IN flow' = [flow EXCEPT !.pc = "done", !.transactions = r.transactions,
                                !.filtered = r.filtered, !.outcome = r.outcome,
                                !.summary = r.summary]
     \/ flow' = [flow EXCEPT !.pc = "done", !.outcome = "fetch failed"]
  /\ UNCHANGED <<engineVars, toolVars, detect, clientVars>>

NextFlow == FlowStart \/ FlowFetched

SpecFlow == Init /\ [][NextFlow]_vars

----------------------------------------------------------------------------
(* One request through the client of EnhancedMaybeFinanceAPI *)

\* this.client.get / post / put / delete / patch: the request enters the
\* request interceptor
HttpRequest ==
  /\ http.pc = "idle"
  /\ http' = [IdleHttp EXCEPT !.pc = "limiter"]
  /\ UNCHANGED <<engineVars, toolVars, detect, flow, limiter, csv>>

\* waitForToken returns and the request is sent
HttpSend ==
  /\ http.pc = "limiter"
  /\ http' = [http EXCEPT !.pc = "sent"]
  /\ UNCHANGED <<engineVars, toolVars, detect, flow, limiter, csv>>

\* the attempt ends: the response is handed to the caller, or the response
\* interceptor starts the timer of a retry, or throws the formatted error
HttpAnswered ==
  /\ http.pc = "sent"
  /\ \E result \in AttemptResults :
       LET attempts == Append(http.attempts, result) IN
       /\ http' =
            IF Resolves(result)
            THEN [http EXCEPT !.pc = "done", !.attempts = attempts,
                              !.outcome = "response"]
            ELSE IF shouldRetry(result, http.retryCount)
                    /\ http.retryCount < Len(retryDelays)
            THEN [http EXCEPT !.pc = "backoff", !.attempts = attempts,
                              !.delay = retryDelays[http.retryCount + 1]]
            ELSE [http EXCEPT !.pc = "done", !.attempts = attempts,
                              !.outcome = "error",
                              !.error = formatError(result)]
       /\ UNCHANGED <<engineVars, toolVars, detect, flow, limiter, csv>>

\* the timer fires: __retryCount is incremented and this.client.request(config)
\* enters the request interceptor again
HttpRetry ==
  /\ http.pc = "backoff"
  /\ http' = [http EXCEPT !.pc = "limiter", !.retryCount = @ + 1,
                          !.waited = Append(@, http.delay), !.delay = 0]
  /\ UNCHANGED <<engineVars, toolVars, detect, flow, limiter, csv>>

NextHttp == HttpRequest \/ HttpSend \/ HttpAnswered \/ HttpRetry

\* every attempt eventually returns, timers fire, and waitForToken returns
SpecHttp ==
  /\ Init
  /\ [][NextHttp]_vars
  /\ WF_vars(HttpSend)
  /\ WF_vars(HttpAnswered)
  /\ WF_vars(HttpRetry)

----------------------------------------------------------------------------
(* Concurrent requests through the request interceptor and its RateLimiter *)

\* waitForToken up to its await, or to its return when a token is there
WaitForToken(r) ==
  /\ limiter.pc[r] = "idle"
  /\ LET l == refill(limiter, limiter.now) IN
     limiter' =
       IF l.tokens < OneToken
       THEN [l EXCEPT !.pc[r] = "waiting",
                      !.wake[r] = limiter.now + waitTime(l.tokens)]
       ELSE [l EXCEPT !.tokens = @ - OneToken, !.pc[r] = "dispatched",
                      !.dispatched = @ + 1]
  /\ UNCHANGED <<engineVars, toolVars, detect, flow, http, csv>>

\* the timer of waitForToken fires: refill, take the token, return
TokenTimerFired(r) ==
  /\ limiter.pc[r] = "waiting"
  /\ limiter.now >= limiter.wake[r]
  /\ LET l == refill(limiter, limiter.now) IN
     limiter' = [l EXCEPT !.tokens = @ - OneToken, !.pc[r] = "dispatched",
                          !.dispatched = @ + 1]
  /\ UNCHANGED <<engineVars, toolVars, detect, flow, http, csv>>

\* time passes
Tick ==
  /\ limiter.now < MaxTime
  /\ limiter' = [limiter EXCEPT !.now = @ + 1]
  /\ UNCHANGED <<engineVars, toolVars, detect, flow, http, csv>>

NextLimiter ==
  \/ \E r \in Requests : WaitForToken(r)
  \/ \E r \in Requests : TokenTimerFired(r)
  \/ Tick

SpecLimiter == Init /\ [][NextLimiter]_vars

----------------------------------------------------------------------------
(* import_csv, with the plain or the caching API client *)

\* ImportCSVSchema.parse and Papa.parse, up to the await of getTransactions
\* or to the loop
ImportStart ==
  /\ csv.pc = "idle"
  /\ csv.imports < MaxImports
  /\ \E rows \in Files, skipDuplicates \in BOOLEAN, dryRun \in BOOLEAN,
        caching \in IF csv.imports = 0 THEN BOOLEAN ELSE {csv.caching},
        account \in IF csv.imports = 0 THEN Accounts ELSE {csv.account} :
       csv' = [csv EXCEPT !.pc = IF skipDuplicates THEN "fetch" ELSE "rows",
                          !.imports = @ + 1, !.caching = caching,
                          !.account = account, !.rows = rows, !.i = 1,
                          !.skipDuplicates = skipDuplicates, !.dryRun = dryRun,
                          !.existing = <<>>, !.pending = Undefined,
                          !.result = NoResult, !.outcome = "none"]
  /\ UNCHANGED <<engineVars, toolVars, detect, flow, http, limiter>>

\* getTransactions answers: from the cache when the caching client holds an
\* answer for the same parameters, else from the service (and the caching
\* client keeps the answer); or it fails and the handler throws
ImportFetched ==
  /\ csv.pc = "fetch"
  /\ \/ IF csv.caching /\ csv.cache # Undefined
        THEN csv' = [csv EXCEPT !.pc = "rows",
                       !.existing = CHOOSE cached \in csv.cache : TRUE]
        ELSE csv' = [csv EXCEPT !.pc = "rows", !.existing = csv.account,
                       !.cache = IF csv.caching THEN {csv.account} ELSE @]
     \/ /\ ~(csv.caching /\ csv.cache # Undefined)
        /\ csv' = [csv EXCEPT !.pc = "idle", !.outcome = "threw"]
  /\ UNCHANGED <<engineVars, toolVars, detect, flow, http, limiter>>

\* one turn of the loop up to the await of createTransaction, or the return
\* after the last row
ImportRow ==
  /\ csv.pc = "rows"
  /\ IF csv.i > Len(csv.rows)
     THEN csv' = [csv EXCEPT !.pc = "idle", !.outcome = "returned"]
     ELSE LET row == csv.rows[csv.i]
              transaction == processRow(row)
          IN IF processRowThrows(row)
             THEN csv' = [csv EXCEPT !.i = @ + 1, !.result.errors = @ + 1]
             ELSE IF csv.dryRun
             THEN csv' = [csv EXCEPT !.i = @ + 1, !.result.preview = @ + 1]
             ELSE IF csv.skipDuplicates /\ isDuplicate(transaction, csv.existing)
             THEN csv' = [csv EXCEPT !.i = @ + 1, !.result.duplicates = @ + 1]
             ELSE csv' = [csv EXCEPT !.pc = "creating",
                                     !.pending = {transaction}]
  /\ UNCHANGED <<engineVars, toolVars, detect, flow, http, limiter>>

\* createTransaction answers: the service has stored the transaction and it
\* joins existingTransactions; or the request failed and the row is an error
ImportCreated ==
  /\ csv.pc = "creating"
  /\ LET created == CHOOSE transaction \in csv.pending : TRUE IN
     \/ csv' = [csv EXCEPT !.pc = "rows", !.i = @ + 1, !.pending = Undefined,
                           !.account = Append(@, created),
                           !.existing = Append(@, created),
                           !.result.imported = @ + 1]
     \/ csv' = [csv EXCEPT !.pc = "rows", !.i = @ + 1, !.pending = Undefined,
                           !.result.errors = @ + 1]
  /\ UNCHANGED <<engineVars, toolVars, detect, flow, http, limiter>>

\* the cached answer is older than the ttl: SimpleCache.get deletes it
CacheExpires ==
  /\ csv.cache # Undefined
  /\ csv' = [csv EXCEPT !.cache = Undefined]
  /\ UNCHANGED <<engineVars, toolVars, detect, flow, http, limiter>>

NextImport ==
  ImportStart \/ ImportFetched \/ ImportRow \/ ImportCreated \/ CacheExpires

SpecImport == Init /\ [][NextImport]_vars

----------------------------------------------------------------------------
(* One rule added to a new engine, then categorize: every combination of   *)
(* condition groups against transactions around each condition's edge      *)

\* a rule above every default rule, with or without each condition group
ProbeRules ==
  {[id |-> "probe", category |-> "Probe", priority |-> Num(1000), seq |-> 0,
    conditions |->
      [merchantPatterns |-> merchantPatterns,
       descriptionPatterns |-> descriptionPatterns,
       amountRange |-> [min |-> min, max |-> max],
       dayOfWeek |-> dayOfWeek, dayOfMonth |-> dayOfMonth,
       isRecurring |-> FALSE]] :
     merchantPatterns \in {{}, {"huur"}},
     descriptionPatterns \in {{}, {"netflix"}},
     min \in {Undefined, {Euro(10)}},
     max \in {Undefined, {Euro(300)}},
     dayOfWeek \in {{}, {1, 3}},
     dayOfMonth \in {{}, {1, 15}}}

\* day 0 is Monday the 1st, day 1 Tuesday the 2nd
ProbeTransactions ==
  {Tx("probe", merchant, name, Amount(neg, cents), date) :
     merchant \in {Null, "Netflix", "Acme"},
     name \in {"Netflix", "Huur Woning", "Monthly Plan", "Food Truck"},
     neg \in {TRUE},
     cents \in {999, 1000, 1099, 30000, 30001},
     date \in {0, 1}}

\* engine.addRule(rule) on a new engine
ProbeAddRule ==
  /\ Added = 0
  /\ call.op = "new"
  /\ \E rule \in ProbeRules :
       /\ rules' = addRule(rules, [rule EXCEPT !.seq = nextSeq])
       /\ nextSeq' = nextSeq + 1
       /\ call' = [NoCall EXCEPT !.op = "addRule", !.arg = rule.id,
                                 !.outcome = "returned"]
  /\ UNCHANGED <<toolVars, analysisVars>>

\* engine.categorize(transaction)
ProbeCategorize ==
  /\ call.op # "categorize"
  /\ \E tx \in ProbeTransactions :
       LET r == categorize(rules, tx) IN
       /\ rules' = RulesAfterCategorize(rules)
       /\ call' = [NoCall EXCEPT !.op = "categorize", !.arg = tx.id,
                                 !.tx = TransactionAfterCategorize(tx),
                                 !.outcome = r.outcome, !.result = r.result,
                                 !.fired = r.fired]
  /\ UNCHANGED <<nextSeq, toolVars, analysisVars>>

NextProbe == ProbeAddRule \/ ProbeCategorize

SpecProbe == Init /\ [][NextProbe]_vars

----------------------------------------------------------------------------
(* Properties of one engine *)

CategorizeReturned == call.op = "categorize" /\ call.outcome = "returned"

\* positions of the rules of the list that match the transaction of the call
Matching == {i \in DOMAIN rules : matchesRule(rules[i], Parsed(call.tx))}

\* the matching rules of maximal priority
TopMatching ==
  {i \in Matching :
     \A j \in Matching : ~NumLess(rules[i].priority, rules[j].priority)}

NoFallbackApplies ==
  LET parsed == Parsed(call.tx) IN
  /\ ~isLikelyGrocery(parsed.merchant, parsed.description, parsed.amount)
  /\ ~isLikelySubscription(parsed.merchant, parsed.amount)

RuleCategories == {rules[i].category : i \in DOMAIN rules}

\* descending priority, equal priorities in registration order
SortedByPriority(rs) ==
  \A i, j \in DOMAIN rs :
    i < j => /\ ~NumLess(rs[i].priority, rs[j].priority)
             /\ rs[i].priority = rs[j].priority => rs[i].seq < rs[j].seq

\* C1: when two or more rules match the transaction, the rule that decides
\* the result of categorize is a matching rule whose priority is maximal
\* among the matching rules, and the result is its category.
C1_HighestPriorityWins ==
  (CategorizeReturned /\ Cardinality(Matching) >= 2) =>
    \E i \in TopMatching :
      /\ rules[i].seq = call.fired
      /\ rules[i].category = call.result

\* two rules of different priority and different category match, and the one
\* of higher priority was registered later
C1_Witness ==
  /\ CategorizeReturned
  /\ \E i, j \in Matching :
       /\ NumLess(rules[i].priority, rules[j].priority)
       /\ rules[i].seq < rules[j].seq
       /\ rules[i].category # rules[j].category
       /\ call.result = rules[j].category

\* C2: when several matching rules share the highest matching priority, the
\* one registered earliest decides the result of categorize.
C2_EarliestRegisteredWinsTie ==
  (CategorizeReturned /\ Cardinality(TopMatching) >= 2) =>
    \E i \in TopMatching :
      /\ \A j \in TopMatching : rules[i].seq <= rules[j].seq
      /\ rules[i].seq = call.fired
      /\ rules[i].category = call.result

\* a tie between rules of different category, after addRule has re-sorted
C2_Witness ==
  /\ CategorizeReturned
  /\ Added > 0
  /\ \E i, j \in TopMatching :
       /\ rules[i].seq < rules[j].seq
       /\ rules[j].seq > Len(DefaultRules)
       /\ rules[i].category # rules[j].category
       /\ call.result = rules[i].category

C5_UniqueIds ==
  \A i, j \in DOMAIN rules : rules[i].id = rules[j].id => i = j

\* C7 as stated: after every addRule and every removeRule the list that
\* getRules returns is in descending priority, ties in registration order.
C7_SortedAfterMutation ==
  call.op \in {"addRule", "removeRule"} => SortedByPriority(getRules(rules))

\* C7 as amended: from the first addRule on, after every addRule and every
\* removeRule the list that getRules returns is in descending priority, ties
\* in registration order.
C7_SortedOnceAdded ==
  (Added > 0 /\ call.op \in {"addRule", "removeRule"}) =>
    SortedByPriority(getRules(rules))

\* a rule was removed after an addRule
C7_Witness ==
  /\ Added > 0
  /\ call.op = "removeRule"
  /\ call.result = "true"

\* C10: a categorize call leaves the rule list and the transaction passed to
\* it unchanged.
C10_CategorizeChangesNothing ==
  [][call'.op = "categorize" =>
       /\ rules' = rules
       /\ call'.tx \in Transactions
       /\ call'.tx.id = call'.arg]_vars

\* a rule decided on a list that is not in priority order
C10_Witness ==
  /\ CategorizeReturned
  /\ call.fired > 0
  /\ ~SortedByPriority(rules)

----------------------------------------------------------------------------
(* Properties of the tool handlers *)

ManageAnswered(action) ==
  /\ response.tool = "get_categorization_rules"
  /\ response.req.action = action

\* a rule definition as the specification wants it
ValidDefinition(rule) ==
  /\ IsFiniteInteger(rule.priority)
  /\ \A p \in rule.merchantPatterns : RegExpCompiles(p)

\* C6: an add-rule operation whose priority is not a finite integer or whose
\* pattern does not compile is answered with an error, and the rule list of
\* the engine is as it was before.
C6_InvalidRuleRejected ==
  (ManageAnswered("add") /\ response.req.hasRule
     /\ ~ValidDefinition(response.req.rule)) =>
    /\ response.isError
    /\ requestEngine = DefaultRules

\* C8: a rule added by a successful request, and not removed since, is in the
\* list every later list request answers with.
C8_AddedRulePersists ==
  (ManageAnswered("list") /\ ~response.isError) =>
    \A id \in handleAdded : \E i \in DOMAIN response.ids : response.ids[i] = id

\* C9: every categorize call of a batch evaluates the rule list as the last
\* completed mutation left it, never a list with a rule pushed and not yet
\* sorted.
C9_CategorizeSeesCompletedMutations ==
  [][(batch.pc = "loop" /\ batch.i <= Len(batch.toProcess) /\ batch' # batch) =>
       rules = committed]_vars

\* a mutation completed between two categorize calls of one batch
C9_Witness ==
  /\ batch.pc = "categorized"
  /\ batch.i >= 2
  /\ batch.lastEpoch > batch.firstEpoch
  /\ call.op = "categorize"

----------------------------------------------------------------------------
(* Properties of detectSubscriptions *)

DetectReturned == detect.pc = "done" /\ detect.outcome = "returned"

\* the groups the last detection formed, as a set of keys
DetectedKeys ==
  {GroupKey(detect.transactions[i]) :
     i \in {j \in DOMAIN detect.transactions :
              /\ detect.transactions[j].classification = "expense"
              /\ ~parseAmountThrows(detect.transactions[j].amount)}}

\* C11: every Subscription returned by detectSubscriptions has at least 3
\* contributing transactions.
C11_AtLeastThreeContributors ==
  \A i \in DOMAIN detect.subscriptions :
    Len(detect.subscriptions[i].transactions) >= 3

\* a subscription is returned while a regular group of two is left out
C11_Witness ==
  /\ DetectReturned
  /\ detect.subscriptions # <<>>
  /\ \E key \in DetectedKeys :
       LET txs == GroupOf(detect.transactions, key) IN
       /\ Len(txs) = 2
       /\ ~HasInvalidDate(txs)
       /\ Frequency(Intervals(Dates(txs))) # Null

\* the confidence the analysis of a group computes, when it finds a frequency
GroupConfidence(txs) ==
  calculateConfidence(Intervals(Dates(txs)),
                      ExpectedInterval(Frequency(Intervals(Dates(txs)))))

PlaceOf(tx) == CHOOSE i \in DOMAIN detect.transactions : detect.transactions[i] = tx

\* C13: the list returned by detectSubscriptions is ordered by non-increasing
\* confidence: of two adjacent entries the earlier has a confidence greater
\* than or equal to the later one's.
C13_OrderedByConfidence ==
  \A i \in DOMAIN detect.subscriptions :
    i < Len(detect.subscriptions) =>
      ~NumLess(detect.subscriptions[i].confidence,
               detect.subscriptions[i + 1].confidence)

\* two subscriptions of different confidence are returned, the more confident
\* first although its group was met later in the batch
C13_Witness ==
  /\ DetectReturned
  /\ Len(detect.subscriptions) >= 2
  /\ NumLess(detect.subscriptions[2].confidence, detect.subscriptions[1].confidence)
  /\ PlaceOf(detect.subscriptions[2].transactions[1])
       < PlaceOf(detect.subscriptions[1].transactions[1])

\* C14: only expense-classified, non-excluded transactions dated within the
\* lookback window take part in recurrence detection: no returned Subscription
\* lists a contributing transaction that is income- or transfer-classified,
\* excluded, or dated before the start of the lookback window.
C14_OnlyEligibleContribute ==
  \A i \in DOMAIN detect.subscriptions :
    \A j \in DOMAIN detect.subscriptions[i].transactions :
      LET tx == detect.subscriptions[i].transactions[j] IN
      /\ tx.classification = "expense"
      /\ ~tx.excluded
      /\ detect.via = "tool" => tx.date >= Today - detect.lookbackDays

\* a transaction whose amount or date cannot be read
Malformed(tx) == parseAmountThrows(tx.amount) \/ tx.date = InvalidDate

RECURSIVE WithoutMalformed(_)
WithoutMalformed(txs) ==
  IF txs = <<>> THEN <<>>
  ELSE IF Malformed(Head(txs)) THEN WithoutMalformed(Tail(txs))
  ELSE <<Head(txs)>> \o WithoutMalformed(Tail(txs))

\* C15: detectSubscriptions over a batch that contains a transaction whose
\* amount or date cannot be parsed completes without raising, and returns
\* what it returns for the batch without that transaction.
C15_MalformedLeftOut ==
  (detect.pc = "done" /\ detect.outcome # "fetch failed") =>
    /\ detect.outcome = "returned"
    /\ detect.subscriptions =
         detectSubscriptions(WithoutMalformed(detect.transactions)).subscriptions

\* the transactions that may take part in detection
Eligible(tx) == tx.classification = "expense" /\ ~tx.excluded /\ ~Malformed(tx)

RECURSIVE EligibleGroup(_, _)
EligibleGroup(txs, key) ==
  IF txs = <<>> THEN <<>>
  ELSE IF Eligible(Head(txs)) /\ GroupKey(Head(txs)) = key
    THEN <<Head(txs)>> \o EligibleGroup(Tail(txs), key)
  ELSE EligibleGroup(Tail(txs), key)

EligibleKeys ==
  {GroupKey(detect.transactions[i]) :
     i \in {j \in DOMAIN detect.transactions : Eligible(detect.transactions[j])}}

\* at least 3 transactions, every gap within 15% of the period of the
\* frequency and the mean gap in the range of its class
Regular(txs, frequency) ==
  /\ Len(txs) >= 3
  /\ \A i \in DOMAIN Intervals(Dates(txs)) :
       WithinTolerance(Intervals(Dates(txs))[i], ExpectedInterval(frequency))
  /\ Frequency(Intervals(Dates(txs))) = frequency

\* C16: for every group of at least 3 expense transactions with the same
\* merchant-or-name and the same absolute amount whose consecutive gaps all
\* lie within 15% of 30 days, detectSubscriptions returns exactly one
\* Subscription, with frequency monthly, confidence at least 0.7 and all of
\* the group's transactions as contributors; likewise weekly and yearly.
C16_RegularGroupIsDetected ==
  (detect.pc = "done" /\ detect.outcome # "fetch failed") =>
    \A key \in EligibleKeys, frequency \in {"weekly", "monthly", "yearly"} :
      LET txs == EligibleGroup(detect.transactions, key) IN
      Regular(txs, frequency) =>
        /\ detect.outcome = "returned"
        /\ Cardinality({i \in DOMAIN detect.subscriptions :
                          \E j \in DOMAIN txs :
                            \E k \in DOMAIN detect.subscriptions[i].transactions :
                              detect.subscriptions[i].transactions[k] = txs[j]}) = 1
        /\ \E i \in DOMAIN detect.subscriptions :
             /\ detect.subscriptions[i].transactions = txs
             /\ detect.subscriptions[i].frequency = frequency
             /\ 10 * detect.subscriptions[i].confidence.num
                  >= 7 * detect.subscriptions[i].confidence.den

----------------------------------------------------------------------------
(* Properties of the cash-flow summary *)

FlowReturned == flow.pc = "done" /\ flow.outcome = "returned"

\* two transactions of the same date and opposite classification whose
\* absolute amounts are less than 0.01 apart: amounts being whole cents, equal
TransferPair(tx1, tx2) ==
  /\ tx1.id # tx2.id
  /\ tx1.date = tx2.date
  /\ OppositeClassifications(tx1, tx2)
  /\ ~parseAmountThrows(tx1.amount) /\ ~parseAmountThrows(tx2.amount)
  /\ Abs(parseAmount(tx1.amount)) = Abs(parseAmount(tx2.amount))

\* the ids of the transactions of a batch that have a partner in it
PairedIds(txs) ==
  {txs[i].id : i \in {k \in DOMAIN txs :
                        \E j \in DOMAIN txs : TransferPair(txs[k], txs[j])}}

\* C17: with transfer exclusion enabled, of any two transactions in the batch
\* with the same date, opposite classification and absolute amounts less than
\* 0.01 apart, neither contributes to inflow, outflow, net flow, the
\* breakdowns or the insight inputs.
C17_TransferPairsExcluded ==
  (FlowReturned /\ flow.args.excludeTransfers) =>
    LET rest == WithoutIds(flow.filtered, PairedIds(flow.transactions)) IN
    /\ flow.filtered = rest
    /\ flow.summary.inflows = Inflows(rest)
    /\ flow.summary.outflows = Outflows(rest)
    /\ flow.summary.netFlow = Inflows(rest) - Outflows(rest)
    /\ flow.args.groupByCategory => flow.summary.byCategory = {groupByCategory(rest)}
    /\ flow.args.groupByAccount => flow.summary.byAccount = {groupByAccount(rest)}

\* the sum of the amounts of a list of transactions
RECURSIVE AmountTotal(_)
AmountTotal(txs) ==
  IF txs = <<>> THEN 0 ELSE parseAmount(Head(txs).amount) + AmountTotal(Tail(txs))

Classified(txs, classification) ==
  SelectSeq(txs, LAMBDA tx : tx.classification = classification)

\* C18: in every summary, inflow is the sum of the amounts of the income
\* transactions that remain after account filtering and transfer exclusion,
\* outflow the sum of the amounts of the remaining expense transactions, and
\* net flow is inflow minus outflow; other transactions contribute to none.
C18_TotalsAreSumsByClassification ==
  FlowReturned =>
    /\ flow.summary.inflows = AmountTotal(Classified(flow.filtered, "income"))
    /\ flow.summary.outflows = AmountTotal(Classified(flow.filtered, "expense"))
    /\ flow.summary.netFlow = flow.summary.inflows - flow.summary.outflows

\* a summary over income, expenses and a transaction that is neither, after a
\* transfer pair was taken out
C18_Witness ==
  /\ FlowReturned
  /\ Classified(flow.filtered, "income") # <<>>
  /\ Classified(flow.filtered, "expense") # <<>>
  /\ Classified(flow.filtered, "transfer") # <<>>
  /\ flow.summary.transactionCount.filtered >= 2
  /\ flow.summary.netFlow # 0

\* the request asks for a period of 0 or fewer days: given as days, or as a
\* start date that is not before the end date
NonPositivePeriod(req) ==
  IF req.tool = "get_cash_flow"
  THEN /\ req.startDate # Undefined /\ req.endDate # Undefined
       /\ \A start \in req.startDate, end \in req.endDate :
            start # InvalidDate /\ end # InvalidDate /\ start >= end
  ELSE req.days.den > 0 /\ req.days.num <= 0

\* C19: a cash-flow summary asked for 0 or a negative number of days, given
\* directly or derived by get_cash_flow from a start date not before the end
\* date, is rejected before any transaction is fetched or any total computed;
\* no summary is produced and nothing is divided by zero.
C19_NonPositivePeriodRejected ==
  /\ (flow.pc # "idle" /\ NonPositivePeriod(flow.req)) =>
       /\ flow.pc = "done"
       /\ flow.outcome = "rejected"
       /\ ~flow.fetched
       /\ flow.summary = NoSummary
  /\ flow.summary # NoSummary => flow.summary.avgDailyNet.den > 0

\* get_cash_flow with the start date on the end date, while the remote
\* service holds transactions: rejected
C19_Witness ==
  /\ flow.pc = "done"
  /\ flow.outcome = "rejected"
  /\ flow.req.tool = "get_cash_flow"
  /\ flow.args.days = Num(0)
  /\ flow.ledger # <<>>

\* totals and daily averages are zero and no insight is given
ZeroTotalsNoInsights ==
  /\ flow.summary.inflows = 0
  /\ flow.summary.outflows = 0
  /\ flow.summary.netFlow = 0
  /\ \A average \in {flow.summary.avgDailyInflow, flow.summary.avgDailyOutflow,
                     flow.summary.avgDailyNet} :
       average.den > 0 /\ average.num = 0
  /\ \A insights \in flow.summary.insights : insights = <<>>

\* C20 as stated: a summary over an empty transaction list, or a list left
\* empty by account filtering and transfer exclusion, has all totals and
\* daily averages zero, every transaction count zero and no insights.
C20_EmptySummaryAllCountsZero ==
  (FlowReturned /\ flow.filtered = <<>>) =>
    /\ ZeroTotalsNoInsights
    /\ flow.summary.transactionCount
         = [total |-> 0, filtered |-> 0, inflows |-> 0, outflows |-> 0]

\* C20, corrected: such a summary has all totals and daily averages zero, no
\* insights, and zero counts of remaining transactions (total, inflows,
\* outflows); its count of filtered-out transactions is the number of
\* transactions fetched.
C20_EmptySummaryZeroTotals ==
  (FlowReturned /\ flow.filtered = <<>>) =>
    /\ ZeroTotalsNoInsights
    /\ flow.summary.transactionCount
         = [total |-> 0, filtered |-> Len(flow.transactions),
            inflows |-> 0, outflows |-> 0]

\* a summary with insights asked for, over a list that filtering left empty
C20_Witness ==
  /\ FlowReturned
  /\ flow.filtered = <<>>
  /\ flow.transactions # <<>>
  /\ flow.summary.insights = {<<>>}

----------------------------------------------------------------------------
(* C21 *)

\* the place of an insight's kind in the fixed order: net flow, average
\* daily net, large transactions, weekend spending
KindOf(insight) ==
  CASE insight \in {"negative cash flow", "positive cash flow"} -> 1
    [] insight \in {"daily deficit", "daily surplus"} -> 2
    [] insight = "large transactions" -> 3
    [] insight = "weekend spending" -> 4

\* the summary without its insight list
Numbers(summary) == [summary EXCEPT !.insights = Undefined]

\* what the handler does with the same transactions and the other value of
\* includeInsights
OtherInsightChoice ==
  rollingCashFlow(flow.ledger, [flow.args EXCEPT !.includeInsights = ~@])

\* C21: a summary lists each kind of insight at most once and in the fixed
\* order, and the same request with the other value of includeInsights ends
\* the same way with the same totals, averages, counts and breakdowns
C21_InsightsLeaveNumbersAlone ==
  flow.outcome \in {"returned", "threw"} =>
    /\ \A list \in flow.summary.insights :
         \A i, j \in DOMAIN list : i < j => KindOf(list[i]) < KindOf(list[j])
    /\ OtherInsightChoice.outcome = flow.outcome
    /\ Numbers(OtherInsightChoice.summary) = Numbers(flow.summary)

----------------------------------------------------------------------------
(* C22 *)

\* an attempt after which the claim allows a retry: no response, 429, 5xx
Retryable(result) ==
  result = NoResponseAtAll \/ result = 429 \/ (result >= 500 /\ result <= 599)

RetriesBounded ==
  /\ Len(http.waited) <= 3
  /\ Len(http.attempts) <= 4
  /\ http.waited = SubSeq(<<1000, 2000, 4000>>, 1, Len(http.waited))
  /\ \A i \in 1..Len(http.waited) : Retryable(http.attempts[i])
  /\ http.pc = "backoff" => Retryable(http.attempts[Len(http.attempts)])
  /\ http.pc = "done" =>
       \/ http.outcome = "response" /\ Resolves(http.attempts[Len(http.attempts)])
       \/ http.outcome = "error" /\ http.error # ""

----------------------------------------------------------------------------
(* C23 *)

\* C23: the token count never exceeds the configured maximum and never
\* drops below zero, and no more requests are dispatched than tokens were
\* available at the start or refilled since
C23_TokensWithinBounds ==
  /\ limiter.tokens <= MaxUnits
  /\ limiter.tokens >= 0
  /\ limiter.dispatched * OneToken <= MaxUnits + limiter.now

----------------------------------------------------------------------------
(* C24 *)

\* C24: with skipDuplicates, no create request is issued for a row whose
\* date, amount and lower-cased name equal those of a transaction the
\* account holds (from before, from this import or from an earlier one)
C24_NoDuplicateCreated ==
  csv.pc = "creating" /\ csv.skipDuplicates =>
    \A transaction \in csv.pending :
      \A j \in DOMAIN csv.account :
        HashKey(csv.account[j]) # HashKey(transaction)

----------------------------------------------------------------------------
(* C25 *)

\* the rule added to the engine, if one was
ProbeRule == {rules[i] : i \in {k \in DOMAIN rules : rules[k].id = "probe"}}

\* every condition group the rule supplies holds, with description patterns
\* tested against the description alone
EveryGroupHolds(rule, tx) ==
  LET conditions == rule.conditions
      merchant == toLowerCase(OrElse(OrElse(tx.merchant, tx.name), ""))
      description == toLowerCase(OrElse(tx.name, ""))
      amount == Abs(parseAmount(tx.amount))
  IN /\ conditions.merchantPatterns # {} =>
          \E pattern \in conditions.merchantPatterns : RegExpTest(pattern, merchant)
     /\ conditions.descriptionPatterns # {} =>
          \E pattern \in conditions.descriptionPatterns :
            RegExpTest(pattern, description)
     /\ \A min \in conditions.amountRange.min : amount >= min
     /\ \A max \in conditions.amountRange.max : amount <= max
     /\ conditions.dayOfWeek # {} => getDay(tx.date) \in conditions.dayOfWeek
     /\ conditions.dayOfMonth # {} => getDate(tx.date) \in conditions.dayOfMonth

\* C25: the rule of highest priority decides the category exactly when every
\* condition group it supplies holds for the transaction
C25_FiresExactlyWhenEveryGroupHolds ==
  CategorizeReturned =>
    \A rule \in ProbeRule :
      call.fired = rule.seq <=> EveryGroupHolds(rule, call.tx)

----------------------------------------------------------------------------
(* C26 *)

\* (a): a grocery keyword in merchant-or-description, amount in [10, 300]
GroceryFallbackApplies(tx) ==
  LET merchant == toLowerCase(OrElse(OrElse(tx.merchant, tx.name), ""))
      description == toLowerCase(OrElse(tx.name, ""))
      amount == Abs(parseAmount(tx.amount))
  IN /\ \E keyword \in {"market", "grocery", "food", "supermar", "grocer"} :
          Includes(merchant, keyword) \/ Includes(description, keyword)
     /\ amount >= 1000
     /\ amount <= 30000

\* (b): an amount of the price table, or 'subscription' or 'monthly' in the
\* merchant or in the description
SubscriptionFallbackApplies(tx) ==
  LET merchant == toLowerCase(OrElse(OrElse(tx.merchant, tx.name), ""))
      description == toLowerCase(OrElse(tx.name, ""))
      amount == Abs(parseAmount(tx.amount))
  IN \/ amount \in subscriptionAmounts
     \/ \E word \in {"subscription", "monthly"} :
          Includes(merchant, word) \/ Includes(description, word)

\* C26: when no rule fires, (a) gives 'Required Purchases' even if (b)
\* applies too, and otherwise (b) gives 'Subscriptions'
C26_FallbacksInOrder ==
  CategorizeReturned /\ call.fired = 0 =>
    /\ GroceryFallbackApplies(call.tx) => call.result = REQUIRED_PURCHASES
    /\ ~GroceryFallbackApplies(call.tx) /\ SubscriptionFallbackApplies(call.tx)
         => call.result = SUBSCRIPTIONS

----------------------------------------------------------------------------
(* C27 *)

\* the batch excludeTransfers is given: the transactions fetched, of the
\* accounts asked for
TransferBatch == FilterAccounts(flow.transactions, flow.args.accountIds)

\* C27: transfer exclusion removes exactly the transactions that have a
\* partner in the batch (same date, opposite income/expense classification,
\* absolute amounts less than 0.01 apart), however many partners there are;
\* every other transaction is kept, in order
C27_RemovedOnlyWithPartner ==
  (FlowReturned /\ flow.args.excludeTransfers) =>
    flow.filtered = WithoutIds(TransferBatch, PairedIds(TransferBatch))

----------------------------------------------------------------------------
(* C28 *)

\* the ids of the transactions of a subscription
ContributorIds(subscription) ==
  {subscription.transactions[i].id : i \in DOMAIN subscription.transactions}

\* C28: every Subscription returned has the merchant-or-name of all its
\* transactions as its merchant and their absolute amount as its amount, and
\* no transaction contributes to two of them
C28_SubscriptionDescribesItsGroup ==
  DetectReturned =>
    /\ \A i \in DOMAIN detect.subscriptions :
         LET subscription == detect.subscriptions[i] IN
         \A j \in DOMAIN subscription.transactions :
           LET tx == subscription.transactions[j] IN
           /\ subscription.merchant = OrElse(tx.merchant, tx.name)
           /\ subscription.amount = Abs(parseAmount(tx.amount))
    /\ \A i, j \in DOMAIN detect.subscriptions :
         i # j => ContributorIds(detect.subscriptions[i])
                    \cap ContributorIds(detect.subscriptions[j]) = {}

----------------------------------------------------------------------------
(* C29 *)

\* the positions of the rules with the id
PositionsOf(rs, ruleId) == {i \in DOMAIN rs : rs[i].id = ruleId}

\* C29: removeRule(id) with an id in the list takes out exactly one rule
\* with that id, answers true and keeps every other rule in its order;
\* with an id not in the list it answers false and keeps the list; changing
\* the array getRules returned leaves the engine's list as it was
C29_RemoveRuleAndGetRulesFrame ==
  [][/\ call'.op = "removeRule" =>
         IF PositionsOf(rules, call'.arg) # {}
         THEN /\ call'.result = "true"
              /\ \E i \in PositionsOf(rules, call'.arg) :
                   rules' = Splice(rules, i)
         ELSE /\ call'.result = "false"
              /\ rules' = rules
     /\ call'.op = "changeArray" => rules' = rules]_vars

\* removeRule has taken one of two rules with the same id
C29_Witness ==
  /\ call.op = "removeRule"
  /\ call.result = "true"
  /\ PositionsOf(rules, call.arg) # {}

----------------------------------------------------------------------------
(* C30 *)

\* the transaction gets an update: the suggestion is not null and is not the
\* category the transaction came with
NeedsUpdate(tx) ==
  LET r == categorize(DefaultRules, tx) IN
  /\ r.outcome = "returned"
  /\ r.result # Null
  /\ r.result # tx.category

\* the updates the first n transactions of the list call for, in list order
RECURSIVE ExpectedUpdates(_, _)
ExpectedUpdates(txs, n) ==
  IF n = 0 THEN <<>>
  ELSE IF NeedsUpdate(txs[n])
    THEN Append(ExpectedUpdates(txs, n - 1),
                <<txs[n].id, categorize(DefaultRules, txs[n]).result>>)
  ELSE ExpectedUpdates(txs, n - 1)

\* the transactions of the batch the loop has dealt with
Dealt == IF batch.pc = "updating" THEN batch.i ELSE batch.i - 1

\* the updates of the running call that were answered
Answered ==
  IF batch.pc = "updating" THEN Len(updates) - 1 ELSE Len(updates)

\* while a call runs, the updates sent are those its list calls for so far
UpdatesInListOrder ==
  batch.pc \in {"loop", "categorized", "updating"} =>
    updates = IF batch.dryRun THEN <<>>
              ELSE ExpectedUpdates(batch.toProcess, Dealt)

\* every answered update of the running call is in place at the service
AnsweredUpdatesStay ==
  batch.pc \in {"loop", "categorized", "updating"} =>
    \A k \in 1..Answered : ledger[updates[k][1]] = updates[k][2]

\* the step of a failing update ends the call and touches nothing
FailureEndsCall ==
  (batch.pc = "updating" /\ batch' # batch /\ batch'.pc # "loop") =>
    /\ batch' = IdleBatch
    /\ response' = Failed(batch.tool)
    /\ ledger' = ledger
    /\ updates' = updates

\* C30: the bulk call sends its updates one at a time in list order, only
\* for a transaction whose suggestion is not null and differs from its
\* category, none with dryRun; a failing update ends the call at once, and
\* the updates answered before it stay
C30_UpdatesInOrderNoRollback ==
  /\ [](UpdatesInListOrder /\ AnsweredUpdatesStay)
  /\ [][FailureEndsCall]_vars

\* the second update of a call failed after the first was applied
C30_Witness ==
  /\ batch.pc = "idle"
  /\ response.isError
  /\ response.tool = "auto_categorize_all"
  /\ Len(updates) = 2
  /\ ledger[updates[1][1]] = updates[1][2]
  /\ ledger[updates[2][1]] # updates[2][2]

====
